---------------------------- MODULE Spec2Model ----------------------------
(***************************************************************************)
(* The dynamic OpenAPI command line client of service_kit: the grammar     *)
(* compiler (build_cli_from_spec), the two request dispatchers             *)
(* (execute_request, execute_request_wasm), the completion engine          *)
(* (ClapCompleter::complete), the history of the wasm build and the        *)
(* session that holds them together.                                       *)
(*                                                                         *)
(* A Rust String is a sequence of one-character strings; an Option<T> is a *)
(* sequence of length 0 (None) or 1 (Some).                                *)
(***************************************************************************)
EXTENDS Integers, Sequences, FiniteSets, TLC

VARIABLES
    spec,        \* SPEC: Option<OpenAPIV3>
    command,     \* CLI_COMMAND / the local `command`: Option<Command>
    baseUrl,     \* BASE_URL / the local `base_url`: Option<String>
    target,      \* which client holds the session: "none", "native" (the loop of the native
                 \* build), "once" (the native build run for one command), "wasm"
    pc,          \* "idle" between lines, "awaiting" while a request is in flight, "done" when
                 \* the line's result is back, "panicked", "exited"
    call,        \* the line being run and its dispatcher call
    request,     \* Option<the HTTP request the call handed to the transport>
    response,    \* Option<what the transport answered to it>
    outcome,     \* the result of the call
    emitted,     \* what the call wrote with println! / console log
    history,     \* HISTORY: VecDeque<String>
    compl,       \* the last completion call and the list it returned
    lookup       \* the last call beside a command line: which, and how it ended

vars == <<spec, command, baseUrl, target, pc, call, request, response, outcome, emitted, history,
          compl, lookup>>

(***************************************************************************)
(* Bounds of the model.                                                    *)
(***************************************************************************)
MaxPaths == 2       \* path templates in one SpecDocument
MaxQuery == 2       \* query parameters of one Operation
MaxHistory == 3     \* entries of the history where every kind of line is submitted
MaxSearched == 24   \* entries of the longest history that is searched

(***************************************************************************)
(* Strings.                                                                *)
(***************************************************************************)
None == <<>>
Some(x) == <<x>>
IsSome(o) == Len(o) = 1
Unwrap(o) == o[1]

\* The characters of the model in ascending byte order (the order of String's Ord): tab,
\* newline and the printable ASCII characters but the backquote.
AsciiOrder ==
    <<"\t", "\n", " ", "!", "\"", "#", "$", "%", "&", "'", "(", ")", "*", "+", ",", "-", ".",
      "/", "0", "1", "2", "3", "4", "5", "6", "7", "8", "9", ":", ";", "<", "=", ">", "?", "@",
      "A", "B", "C", "D", "E", "F", "G", "H", "I", "J", "K", "L", "M", "N", "O", "P", "Q", "R",
      "S", "T", "U", "V", "W", "X", "Y", "Z", "[", "\\", "]", "^", "_", "a", "b", "c", "d",
      "e", "f", "g", "h", "i", "j", "k", "l", "m", "n", "o", "p", "q", "r", "s", "t", "u", "v",
      "w", "x", "y", "z", "{", "|", "}", "~">>

Rank(c) == CHOOSE k \in 1..Len(AsciiOrder) : AsciiOrder[k] = c

RECURSIVE StrLess(_, _)
StrLess(s, t) ==
    IF s = <<>> THEN t # <<>>
    ELSE IF t = <<>> THEN FALSE
    ELSE IF Head(s) = Head(t) THEN StrLess(Tail(s), Tail(t))
    ELSE Rank(Head(s)) < Rank(Head(t))

StartsWith(s, p) == Len(p) <= Len(s) /\ SubSeq(s, 1, Len(p)) = p
EndsWith(s, p) == Len(p) <= Len(s) /\ SubSeq(s, Len(s) - Len(p) + 1, Len(s)) = p

\* str::replace(from, to) for a one-character pattern
RECURSIVE ReplaceChar(_, _, _)
ReplaceChar(s, from, to) ==
    IF s = <<>> THEN <<>>
    ELSE (IF Head(s) = from THEN to ELSE <<Head(s)>>) \o ReplaceChar(Tail(s), from, to)

\* str::replace(pat, to) for a non-empty pattern: leftmost, non-overlapping matches
RECURSIVE ReplaceStr(_, _, _)
ReplaceStr(s, pat, to) ==
    IF s = <<>> THEN <<>>
    ELSE IF StartsWith(s, pat) THEN to \o ReplaceStr(SubSeq(s, Len(pat) + 1, Len(s)), pat, to)
    ELSE <<Head(s)>> \o ReplaceStr(Tail(s), pat, to)

RECURSIVE TrimStartMatches(_, _)
TrimStartMatches(s, c) ==
    IF s # <<>> /\ Head(s) = c THEN TrimStartMatches(Tail(s), c) ELSE s

\* str::split(c): the pieces between the separators, empty ones included
RECURSIVE SplitAcc(_, _, _)
SplitAcc(s, c, cur) ==
    IF s = <<>> THEN <<cur>>
    ELSE IF Head(s) = c THEN <<cur>> \o SplitAcc(Tail(s), c, <<>>)
    ELSE SplitAcc(Tail(s), c, Append(cur, Head(s)))
Split(s, c) == SplitAcc(s, c, <<>>)

\* [&str]::join(sep)
RECURSIVE Join(_, _)
Join(ps, sep) ==
    IF ps = <<>> THEN <<>>
    ELSE IF Len(ps) = 1 THEN ps[1]
    ELSE ps[1] \o sep \o Join(Tail(ps), sep)

UpperCase == <<"A", "B", "C", "D", "E", "F", "G", "H", "I", "J", "K", "L", "M",
               "N", "O", "P", "Q", "R", "S", "T", "U", "V", "W", "X", "Y", "Z">>
LowerCase == <<"a", "b", "c", "d", "e", "f", "g", "h", "i", "j", "k", "l", "m",
               "n", "o", "p", "q", "r", "s", "t", "u", "v", "w", "x", "y", "z">>
UpperOf(c) == IF \E k \in 1..26 : LowerCase[k] = c
              THEN UpperCase[CHOOSE k \in 1..26 : LowerCase[k] = c] ELSE c
LowerOf(c) == IF \E k \in 1..26 : UpperCase[k] = c
              THEN LowerCase[CHOOSE k \in 1..26 : UpperCase[k] = c] ELSE c
ToUppercase(s) == [k \in 1..Len(s) |-> UpperOf(s[k])]
ToLowercase(s) == [k \in 1..Len(s) |-> LowerOf(s[k])]

Filter(seq, Keep(_)) == SelectSeq(seq, Keep)

(***************************************************************************)
(* The Spec Model (the oas crate's OpenAPIV3, as far as the client reads   *)
(* it).  paths is a BTreeMap: it is iterated in ascending key order, here  *)
(* a sequence of <<key, PathItem>> sorted by key.                          *)
(***************************************************************************)
S_id   == <<"i", "d">>
S_name == <<"n", "a", "m", "e">>
S_body == <<"b", "o", "d", "y">>
S_q    == <<"q">>
S_users    == <<"u", "s", "e", "r", "s">>
S_me       == <<"m", "e">>
S_v1       == <<"v", "1">>
S_add      == <<"a", "d", "d">>
S_products == <<"p", "r", "o", "d", "u", "c", "t", "s">>

GET    == <<"G", "E", "T">>
POST   == <<"P", "O", "S", "T">>
PUT    == <<"P", "U", "T">>
DELETE == <<"D", "E", "L", "E", "T", "E">>
PATCH  == <<"P", "A", "T", "C", "H">>

\* oas::Parameter behind Referenceable: ref is TRUE for Referenceable::Reference
Param(name, in, required) == [ref |-> FALSE, name |-> name, in |-> in, required |-> required]
RefParam == [ref |-> TRUE, name |-> <<>>, in |-> "path", required |-> None]
\* oas::RequestBody: json says whether content has the key application/json
Body(json, required) == [ref |-> FALSE, json |-> json, required |-> required]
\* oas::Operation
Op(parameters, request_body) == [parameters |-> parameters, request_body |-> request_body]
\* oas::PathItem
NoItem == [get |-> None, post |-> None, put |-> None, delete |-> None, patch |-> None]

\* A path template written as its segments; Lit is a fixed segment, Var a {placeholder}.
Lit(t) == [text |-> t, param |-> FALSE]
Var(t) == [text |-> t, param |-> TRUE]
SegmentText(g) == IF g.param THEN <<"{">> \o g.text \o <<"}">> ELSE g.text
RECURSIVE Template(_)
Template(segs) ==
    IF segs = <<>> THEN <<>> ELSE <<"/">> \o SegmentText(Head(segs)) \o Template(Tail(segs))

Segs_users_id_var    == <<Lit(S_users), Var(S_id)>>
Segs_users_id        == <<Lit(S_users), Lit(S_id)>>
Segs_users_name_var  == <<Lit(S_users), Var(S_name)>>
Segs_users_me        == <<Lit(S_users), Lit(S_me)>>
Segs_v1_add          == <<Lit(S_v1), Lit(S_add)>>
Segs_v1_products_id  == <<Lit(S_v1), Lit(S_products), Var(S_id)>>

IdRequired   == Param(S_id, "path", Some(TRUE))
IdOptional   == Param(S_id, "path", None)
NameRequired == Param(S_name, "path", Some(TRUE))
QueryQ       == Param(S_q, "query", None)
QueryBody    == Param(S_body, "query", Some(FALSE))
HeaderQ      == Param(S_q, "header", None)

\* The PathItems a path of the pool may carry.
PathPool ==
    { [segs |-> Segs_users_id_var,
       item |-> [NoItem EXCEPT !.get = Some(Op(Some(<<IdOptional>>), None)),
                               !.put = Some(Op(Some(<<RefParam>>), Some(Body(TRUE, Some(TRUE)))))]],
      [segs |-> Segs_users_id,
       item |-> [NoItem EXCEPT !.get = Some(Op(None, None))]],
      [segs |-> Segs_users_name_var,
       item |-> [NoItem EXCEPT !.get = Some(Op(Some(<<NameRequired>>), None)),
                               !.put = Some(Op(Some(<<NameRequired>>), None))]],
      [segs |-> Segs_users_me,
       item |-> [NoItem EXCEPT !.get = Some(Op(Some(<<QueryQ, QueryBody>>), None)),
                               !.patch = Some(Op(Some(<<HeaderQ>>), Some(Body(FALSE, None))))]],
      [segs |-> Segs_v1_add,
       item |-> [NoItem EXCEPT !.post = Some(Op(Some(<<QueryQ>>), Some(Body(TRUE, None)))),
                               !.get = Some(Op(Some(<<QueryBody>>), None))]],
      [segs |-> Segs_v1_products_id,
       item |-> [NoItem EXCEPT !.get = Some(Op(Some(<<IdRequired, QueryQ>>), None)),
                               !.delete = Some(Op(Some(<<IdRequired>>), None))]] }

S_api == <<"/", "a", "p", "i">>
S_v2  == <<"/", "v", "2">>
\* spec.servers: Option<Vec<Server>>, a server being its url
ServersPool == { None, Some(<<>>), Some(<<S_api, S_v2>>) }

\* BTreeMap order: the entries sorted by key
RECURSIVE SortedEntries(_)
SortedEntries(S) ==
    IF S = {} THEN <<>>
    ELSE LET least == CHOOSE e \in S : \A f \in S \ {e} : StrLess(e[1], f[1])
         IN  <<least>> \o SortedEntries(S \ {least})

\* A map has one entry per key.
DistinctKeys(S) == \A e, f \in S : Template(e.segs) = Template(f.segs) => e = f

PathSets == { S \in SUBSET PathPool : Cardinality(S) <= MaxPaths /\ DistinctKeys(S) }

Document(S, servers) ==
    [paths |-> SortedEntries({ <<Template(e.segs), e.item>> : e \in S }), servers |-> servers]

Docs == { Document(S, sv) : S \in PathSets, sv \in ServersPool }

\* BTreeMap::get
PathsGet(doc, key) ==
    LET hits == { k \in 1..Len(doc.paths) : doc.paths[k][1] = key }
    IN  IF hits = {} THEN None ELSE Some(doc.paths[CHOOSE k \in hits : TRUE])

\* the operations array in the order of the method names
MethodsByName == <<DELETE, GET, PATCH, POST, PUT>>

\* the operations array of add_operations_as_subcommands
Methods == <<GET, POST, PUT, DELETE, PATCH>>

\* match method_str { "GET" => path_item.get.as_ref(), ... _ => None }
OperationOf(item, method_str) ==
    CASE method_str = GET -> item.get
      [] method_str = POST -> item.post
      [] method_str = PUT -> item.put
      [] method_str = DELETE -> item.delete
      [] method_str = PATCH -> item.patch
      [] OTHER -> None

(***************************************************************************)
(* The Grammar Compiler: build_cli_from_spec.                              *)
(***************************************************************************)
\* clap::Arg as the compiler builds it: ArgAction::Set takes a value
Arg(id, required) == [id |-> id, long |-> Some(id), short |-> None, required |-> required,
                      takes_values |-> TRUE, set_true |-> FALSE, possible_values |-> <<>>]

UnwrapOr(o, d) == IF IsSome(o) THEN Unwrap(o) ELSE d

\* CommandNamePrefix without its last replace: the closing brace stays in the name
CommandNamePrefixKeepsBrace(path) ==
    ReplaceChar(ReplaceChar(TrimStartMatches(path, "/"), "/", <<".">>), "{", <<>>)

CommandNamePrefix(path) ==
    ReplaceChar(ReplaceChar(ReplaceChar(TrimStartMatches(path, "/"), "/", <<".">>), "{", <<>>),
                "}", <<>>)

CommandName(path, method) == CommandNamePrefix(path) \o <<".">> \o ToLowercase(method)

RECURSIVE ParameterArgs(_)
ParameterArgs(params) ==
    IF params = <<>> THEN <<>>
    ELSE (IF Head(params).ref THEN <<>>
          ELSE <<Arg(Head(params).name, UnwrapOr(Head(params).required, FALSE))>>)
         \o ParameterArgs(Tail(params))

\* if let Some(Referenceable::Data(request_body)) = .. { if request_body.content.contains_key("application/json")
HasJsonContent(request_body) ==
    IsSome(request_body) /\ ~Unwrap(request_body).ref /\ Unwrap(request_body).json

BodyArgs(request_body) ==
    IF HasJsonContent(request_body)
    THEN <<Arg(S_body, UnwrapOr(Unwrap(request_body).required, FALSE))>>
    ELSE <<>>

SubCommand(path, method, op) ==
    [name |-> CommandName(path, method),
     args |-> (IF IsSome(op.parameters) THEN ParameterArgs(Unwrap(op.parameters)) ELSE <<>>)
              \o BodyArgs(op.request_body),
     subcommands |-> <<>>]

RECURSIVE OperationsAsSubcommands(_, _, _)
OperationsAsSubcommands(path, item, methods) ==
    IF methods = <<>> THEN <<>>
    ELSE LET op_opt == OperationOf(item, Head(methods))
         IN  (IF IsSome(op_opt) THEN <<SubCommand(path, Head(methods), Unwrap(op_opt))>> ELSE <<>>)
             \o OperationsAsSubcommands(path, item, Tail(methods))

add_operations_as_subcommands(app, path, item) ==
    [app EXCEPT !.subcommands = @ \o OperationsAsSubcommands(path, item, Methods)]

RECURSIVE FoldPaths(_, _)
FoldPaths(acc, entries) ==
    IF entries = <<>> THEN acc
    ELSE FoldPaths(add_operations_as_subcommands(acc, Head(entries)[1], Head(entries)[2]),
                   Tail(entries))

build_cli_from_spec(doc) ==
    FoldPaths([name |-> <<"f", "o", "r", "g", "e", "-", "a", "p", "i", "-", "c", "l", "i">>,
               args |-> <<>>, subcommands |-> <<>>], doc.paths)

(***************************************************************************)
(* shlex::split, the tokenizer of every command line: None when a quote or *)
(* an escape is left open.                                                 *)
(***************************************************************************)
IsShlexSpace(c) == c \in {" ", "\t", "\n"}

\* Shlex::parse_single from position i: <<closed, position after the quote, word>>
RECURSIVE ParseSingle(_, _, _)
ParseSingle(s, i, acc) ==
    IF i > Len(s) THEN <<FALSE, i, acc>>
    ELSE IF s[i] = "'" THEN <<TRUE, i + 1, acc>>
    ELSE ParseSingle(s, i + 1, Append(acc, s[i]))

\* Shlex::parse_double from position i (a backslash also escapes a backquote, a
\* character the model's lines never hold)
RECURSIVE ParseDouble(_, _, _)
ParseDouble(s, i, acc) ==
    IF i > Len(s) THEN <<FALSE, i, acc>>
    ELSE IF s[i] = "\"" THEN <<TRUE, i + 1, acc>>
    ELSE IF s[i] = "\\" THEN
        IF i + 1 > Len(s) THEN <<FALSE, i + 1, acc>>
        ELSE IF s[i + 1] \in {"$", "\"", "\\"} THEN ParseDouble(s, i + 2, Append(acc, s[i + 1]))
        ELSE IF s[i + 1] = "\n" THEN ParseDouble(s, i + 2, acc)
        ELSE ParseDouble(s, i + 2, acc \o <<"\\", s[i + 1]>>)
    ELSE ParseDouble(s, i + 1, Append(acc, s[i]))

\* Shlex::parse_word with the character at i in hand: <<ok, position after the word, word>>
RECURSIVE ParseWord(_, _, _)
ParseWord(s, i, acc) ==
    IF i > Len(s) THEN <<TRUE, i, acc>>
    ELSE IF s[i] = "\"" THEN
        LET r == ParseDouble(s, i + 1, acc)
        IN  IF r[1] THEN ParseWord(s, r[2], r[3]) ELSE <<FALSE, r[2], r[3]>>
    ELSE IF s[i] = "'" THEN
        LET r == ParseSingle(s, i + 1, acc)
        IN  IF r[1] THEN ParseWord(s, r[2], r[3]) ELSE <<FALSE, r[2], r[3]>>
    ELSE IF s[i] = "\\" THEN
        IF i + 1 > Len(s) THEN <<FALSE, i + 1, acc>>
        ELSE IF s[i + 1] = "\n" THEN ParseWord(s, i + 2, acc)
        ELSE ParseWord(s, i + 2, Append(acc, s[i + 1]))
    ELSE IF IsShlexSpace(s[i]) THEN <<TRUE, i + 1, acc>>
    ELSE ParseWord(s, i + 1, Append(acc, s[i]))

\* Shlex::next: the start of the next word, past white space and # comments; 0 at the end
RECURSIVE SkipComment(_, _)
SkipComment(s, i) ==
    IF i > Len(s) THEN i ELSE IF s[i] = "\n" THEN i + 1 ELSE SkipComment(s, i + 1)

RECURSIVE WordStart(_, _)
WordStart(s, i) ==
    IF i > Len(s) THEN 0
    ELSE IF IsShlexSpace(s[i]) THEN WordStart(s, i + 1)
    ELSE IF s[i] = "#" THEN WordStart(s, SkipComment(s, i + 1))
    ELSE i

RECURSIVE ShlexWords(_, _, _)
ShlexWords(s, i, acc) ==
    LET b == WordStart(s, i)
    IN  IF b = 0 THEN Some(acc)
        ELSE LET w == ParseWord(s, b, <<>>)
             IN  IF w[1] THEN ShlexWords(s, w[2], Append(acc, w[3])) ELSE None

shlex_split(s) == ShlexWords(s, 1, <<>>)

\* str::split_whitespace over the white space of the model
RECURSIVE SplitWhitespaceAcc(_, _, _)
SplitWhitespaceAcc(s, cur, acc) ==
    IF s = <<>> THEN (IF cur = <<>> THEN acc ELSE Append(acc, cur))
    ELSE IF IsShlexSpace(Head(s)) THEN
        SplitWhitespaceAcc(Tail(s), <<>>, IF cur = <<>> THEN acc ELSE Append(acc, cur))
    ELSE SplitWhitespaceAcc(Tail(s), Append(cur, Head(s)), acc)
split_whitespace(s) == SplitWhitespaceAcc(s, <<>>, <<>>)

\* str::trim
RECURSIVE TrimEnd(_)
TrimEnd(s) == IF s # <<>> /\ IsShlexSpace(s[Len(s)]) THEN TrimEnd(SubSeq(s, 1, Len(s) - 1)) ELSE s
RECURSIVE TrimStart(_)
TrimStart(s) == IF s # <<>> /\ IsShlexSpace(Head(s)) THEN TrimStart(Tail(s)) ELSE s
Trim(s) == TrimEnd(TrimStart(s))

(***************************************************************************)
(* serde_json: from_str::<Value> on the JSON of the model (objects,        *)
(* arrays, strings without escapes, integers, true, false, null) and       *)
(* to_string_pretty.  A Value is [t, n, s, items].                         *)
(***************************************************************************)
JNull      == [t |-> "null", n |-> 0, s |-> <<>>, items |-> <<>>]
JBool(b)   == [t |-> IF b THEN "true" ELSE "false", n |-> 0, s |-> <<>>, items |-> <<>>]
JNum(n)    == [t |-> "number", n |-> n, s |-> <<>>, items |-> <<>>]
JStr(s)    == [t |-> "string", n |-> 0, s |-> s, items |-> <<>>]
JArr(vs)   == [t |-> "array", n |-> 0, s |-> <<>>, items |-> vs]
\* items: a sequence of <<key, Value>>
JObj(ms)   == [t |-> "object", n |-> 0, s |-> <<>>, items |-> ms]

Digits == <<"0", "1", "2", "3", "4", "5", "6", "7", "8", "9">>
IsDigit(c) == \E d \in 1..10 : Digits[d] = c
DigitValue(c) == (CHOOSE d \in 1..10 : Digits[d] = c) - 1

JFail == [ok |-> FALSE, pos |-> 0, val |-> JNull]
JOk(pos, val) == [ok |-> TRUE, pos |-> pos, val |-> val]

RECURSIVE JSkipWs(_, _)
JSkipWs(s, i) ==
    IF i <= Len(s) /\ s[i] \in {" ", "\t", "\n"} THEN JSkipWs(s, i + 1) ELSE i

RECURSIVE JDigits(_, _, _)
JDigits(s, i, n) ==
    IF i <= Len(s) /\ IsDigit(s[i]) THEN JDigits(s, i + 1, 10 * n + DigitValue(s[i]))
    ELSE JOk(i, JNum(n))

\* an integer: an optional '-', then 0 or a digit string without a leading 0
JNumber(s, i) ==
    LET neg == i <= Len(s) /\ s[i] = "-"
        b == IF neg THEN i + 1 ELSE i
    IN  IF b > Len(s) \/ ~IsDigit(s[b]) THEN JFail
        ELSE LET r == IF s[b] = "0" THEN JOk(b + 1, JNum(0)) ELSE JDigits(s, b, 0)
             IN  IF r.pos <= Len(s) /\ (IsDigit(s[r.pos]) \/ s[r.pos] \in {".", "e", "E"}) THEN JFail
                 ELSE JOk(r.pos, JNum(IF neg THEN 0 - r.val.n ELSE r.val.n))

\* the characters of a string up to its closing quote; the model has no escapes
RECURSIVE JString(_, _, _)
JString(s, i, acc) ==
    IF i > Len(s) \/ s[i] \in {"\\", "\n", "\t"} THEN JFail
    ELSE IF s[i] = "\"" THEN JOk(i + 1, JStr(acc))
    ELSE JString(s, i + 1, Append(acc, s[i]))

JLiteral(s, i, word, val) ==
    IF i + Len(word) - 1 <= Len(s) /\ SubSeq(s, i, i + Len(word) - 1) = word
    THEN JOk(i + Len(word), val) ELSE JFail

RECURSIVE JValue(_, _)
RECURSIVE JMembers(_, _, _)
RECURSIVE JElements(_, _, _)

\* after '{' or a ',': "key" : value, then ',' or '}'
JMembers(s, i, acc) ==
    LET k == JSkipWs(s, i)
    IN  IF k > Len(s) \/ s[k] # "\"" THEN JFail
        ELSE LET key == JString(s, k + 1, <<>>)
             IN  IF ~key.ok THEN JFail
                 ELSE LET c == JSkipWs(s, key.pos)
                      IN  IF c > Len(s) \/ s[c] # ":" THEN JFail
                          ELSE LET v == JValue(s, c + 1)
                               IN  IF ~v.ok THEN JFail
                                   ELSE LET e == JSkipWs(s, v.pos)
                                            ms == Append(acc, <<key.val.s, v.val>>)
                                        IN  IF e > Len(s) THEN JFail
                                            ELSE IF s[e] = "," THEN JMembers(s, e + 1, ms)
                                            ELSE IF s[e] = "}" THEN JOk(e + 1, JObj(ms))
                                            ELSE JFail

JElements(s, i, acc) ==
    LET v == JValue(s, i)
    IN  IF ~v.ok THEN JFail
        ELSE LET e == JSkipWs(s, v.pos)
                 vs == Append(acc, v.val)
             IN  IF e > Len(s) THEN JFail
                 ELSE IF s[e] = "," THEN JElements(s, e + 1, vs)
                 ELSE IF s[e] = "]" THEN JOk(e + 1, JArr(vs))
                 ELSE JFail

JValue(s, i) ==
    LET b == JSkipWs(s, i)
    IN  IF b > Len(s) THEN JFail
        ELSE IF s[b] = "{" THEN
            (LET c == JSkipWs(s, b + 1)
             IN  IF c <= Len(s) /\ s[c] = "}" THEN JOk(c + 1, JObj(<<>>)) ELSE JMembers(s, b + 1, <<>>))
        ELSE IF s[b] = "[" THEN
            (LET c == JSkipWs(s, b + 1)
             IN  IF c <= Len(s) /\ s[c] = "]" THEN JOk(c + 1, JArr(<<>>)) ELSE JElements(s, b + 1, <<>>))
        ELSE IF s[b] = "\"" THEN JString(s, b + 1, <<>>)
        ELSE IF s[b] = "t" THEN JLiteral(s, b, <<"t", "r", "u", "e">>, JBool(TRUE))
        ELSE IF s[b] = "f" THEN JLiteral(s, b, <<"f", "a", "l", "s", "e">>, JBool(FALSE))
        ELSE IF s[b] = "n" THEN JLiteral(s, b, <<"n", "u", "l", "l">>, JNull)
        ELSE JNumber(s, b)

\* serde_json::from_str::<Value>: one value, then nothing but white space
from_str(s) ==
    LET v == JValue(s, 1)
    IN  IF v.ok /\ JSkipWs(s, v.pos) > Len(s) THEN Some(v.val) ELSE None

RECURSIVE NatToString(_)
NatToString(n) == IF n < 10 THEN <<Digits[n + 1]>> ELSE NatToString(n \div 10) \o <<Digits[(n % 10) + 1]>>
IntToString(n) == IF n < 0 THEN <<"-">> \o NatToString(0 - n) ELSE NatToString(n)

Indent(depth) == [k \in 1..(2 * depth) |-> " "]

\* serde_json::to_string_pretty: two spaces a level, one member a line
RECURSIVE Pretty(_, _)
RECURSIVE PrettyItems(_, _, _)
PrettyItems(v, k, depth) ==
    LET item == v.items[k]
        text == IF v.t = "object"
                THEN <<"\"">> \o item[1] \o <<"\"", ":", " ">> \o Pretty(item[2], depth)
                ELSE Pretty(item, depth)
    IN  Indent(depth) \o text
        \o (IF k < Len(v.items) THEN <<",", "\n">> \o PrettyItems(v, k + 1, depth) ELSE <<"\n">>)
Pretty(v, depth) ==
    CASE v.t = "null" -> <<"n", "u", "l", "l">>
      [] v.t = "true" -> <<"t", "r", "u", "e">>
      [] v.t = "false" -> <<"f", "a", "l", "s", "e">>
      [] v.t = "number" -> IntToString(v.n)
      [] v.t = "string" -> <<"\"">> \o v.s \o <<"\"">>
      [] v.t = "array" ->
            IF v.items = <<>> THEN <<"[", "]">>
            ELSE <<"[", "\n">> \o PrettyItems(v, 1, depth + 1) \o Indent(depth) \o <<"]">>
      [] v.t = "object" ->
            IF v.items = <<>> THEN <<"{", "}">>
            ELSE <<"{", "\n">> \o PrettyItems(v, 1, depth + 1) \o Indent(depth) \o <<"}">>
to_string_pretty(v) == Pretty(v, 0)

(***************************************************************************)
(* clap: Command::try_get_matches_from on a compiled tree, for the command *)
(* lines of the model: a subcommand name, then --flag value or             *)
(* --flag=value.                                                           *)
(***************************************************************************)
S_help == <<"h", "e", "l", "p">>
S_dashdash == <<"-", "-">>

FindSubcommand(cmd, name) ==
    LET hits == { k \in 1..Len(cmd.subcommands) : cmd.subcommands[k].name = name }
    IN  IF hits = {} THEN 0 ELSE CHOOSE k \in hits : \A j \in hits : k <= j

\* the first argument of cmd written as the flag token: --long or -short
FindArg(cmd, token) ==
    LET hits == { k \in 1..Len(cmd.args) :
                    \/ (IsSome(cmd.args[k].long) /\ S_dashdash \o Unwrap(cmd.args[k].long) = token)
                    \/ (IsSome(cmd.args[k].short) /\ <<"-">> \o Unwrap(cmd.args[k].short) = token) }
    IN  IF hits = {} THEN 0 ELSE CHOOSE k \in hits : \A j \in hits : k <= j

IndexOfChar(s, c) ==
    LET hits == { k \in 1..Len(s) : s[k] = c }
    IN  IF hits = {} THEN 0 ELSE CHOOSE k \in hits : \A j \in hits : k <= j

Bound(vals, id) == \E k \in 1..Len(vals) : vals[k][1] = id

ClapErr(kind) == [ok |-> FALSE, err |-> kind, name |-> <<>>, ids |-> {}, vals |-> <<>>]

\* the arguments after the subcommand name; vals: the <<id, value>> bound so far
RECURSIVE ParseSubArgs(_, _, _, _)
ParseSubArgs(sub, toks, i, vals) ==
    IF i > Len(toks) THEN
        IF \E k \in 1..Len(sub.args) : sub.args[k].required /\ ~Bound(vals, sub.args[k].id)
        THEN ClapErr("MissingRequiredArgument")
        ELSE [ok |-> TRUE, err |-> "", name |-> sub.name,
              ids |-> { sub.args[k].id : k \in 1..Len(sub.args) }, vals |-> vals]
    ELSE LET tok == toks[i]
             eq == IndexOfChar(tok, "=")
             flag == IF eq > 0 THEN SubSeq(tok, 1, eq - 1) ELSE tok
             a == FindArg(sub, flag)
         IN  IF tok \in {S_dashdash \o S_help, <<"-", "h">>} THEN ClapErr("DisplayHelp")
             ELSE IF ~StartsWith(tok, <<"-">>) \/ tok = S_dashdash \/ a = 0
             THEN ClapErr("UnknownArgument")
             ELSE IF Bound(vals, sub.args[a].id) THEN ClapErr("ArgumentConflict")
             ELSE IF eq > 0
             THEN ParseSubArgs(sub, toks, i + 1,
                               Append(vals, <<sub.args[a].id, SubSeq(tok, eq + 1, Len(tok))>>))
             ELSE IF i + 1 > Len(toks) \/ StartsWith(toks[i + 1], <<"-">>)
             THEN ClapErr("InvalidValue")
             ELSE ParseSubArgs(sub, toks, i + 2, Append(vals, <<sub.args[a].id, toks[i + 1]>>))

\* args: the tokens after the program name
try_get_matches_from(cmd, args) ==
    IF args = <<>> THEN ClapErr("DisplayHelpOnMissingArgumentOrSubcommand")
    ELSE IF args[1] \in {S_help, S_dashdash \o S_help, <<"-", "h">>} THEN ClapErr("DisplayHelp")
    ELSE IF StartsWith(args[1], <<"-">>) THEN ClapErr("UnknownArgument")
    ELSE LET k == FindSubcommand(cmd, args[1])
         IN  IF k = 0 THEN ClapErr("InvalidSubcommand")
             ELSE ParseSubArgs(cmd.subcommands[k], args, 2, <<>>)

\* ArgMatches::get_one::<String>(id): panics on an id the subcommand does not define
GetOne(matches, id) ==
    IF id \notin matches.ids THEN [panic |-> TRUE, value |-> None]
    ELSE LET hits == { k \in 1..Len(matches.vals) : matches.vals[k][1] = id }
         IN  [panic |-> FALSE,
              value |-> IF hits = {} THEN None
                        ELSE Some(matches.vals[CHOOSE k \in hits : TRUE][2])]

(***************************************************************************)
(* The Request Dispatcher: execute_request (native) and                    *)
(* execute_request_wasm, up to the request handed to the transport.        *)
(***************************************************************************)
\* HashMap::insert: the value of a key already there is replaced
MapInsert(map, key, value) ==
    IF \E k \in 1..Len(map) : map[k][1] = key
    THEN [k \in 1..Len(map) |-> IF map[k][1] = key THEN <<key, value>> ELSE map[k]]
    ELSE Append(map, <<key, value>>)

\* the loop over operation.parameters: the path substituted, the query map filled
RECURSIVE ProcessParameters(_, _, _, _)
ProcessParameters(params, matches, final_path, query_params) ==
    IF params = <<>> THEN [panic |-> FALSE, final_path |-> final_path, query_params |-> query_params]
    ELSE LET param == Head(params)
             got == GetOne(matches, param.name)
         IN  IF param.ref THEN ProcessParameters(Tail(params), matches, final_path, query_params)
             ELSE IF got.panic
             THEN [panic |-> TRUE, final_path |-> final_path, query_params |-> query_params]
             ELSE IF ~IsSome(got.value)
             THEN ProcessParameters(Tail(params), matches, final_path, query_params)
             ELSE IF param.in = "path"
             THEN ProcessParameters(Tail(params), matches,
                      ReplaceStr(final_path, <<"{">> \o param.name \o <<"}">>, Unwrap(got.value)),
                      query_params)
             ELSE IF param.in = "query"
             THEN ProcessParameters(Tail(params), matches, final_path,
                      MapInsert(query_params, param.name, Unwrap(got.value)))
             ELSE ProcessParameters(Tail(params), matches, final_path, query_params)

IsAlphanumeric(c) ==
    \/ IsDigit(c)
    \/ \E k \in 1..26 : UpperCase[k] = c \/ LowerCase[k] = c

\* the byte of a character of AsciiOrder
ByteOf(c) ==
    IF c = "\t" THEN 9 ELSE IF c = "\n" THEN 10
    ELSE LET code == 32 + (Rank(c) - 3) IN IF code >= 96 THEN code + 1 ELSE code

HexDigits == <<"0", "1", "2", "3", "4", "5", "6", "7", "8", "9", "A", "B", "C", "D", "E", "F">>

\* form_urlencoded::byte_serialize: alphanumerics and * - . _ unchanged, the space as +,
\* any other byte as %XX
UrlEncodeChar(c) ==
    IF IsAlphanumeric(c) \/ c \in {"*", "-", ".", "_"} THEN <<c>>
    ELSE IF c = " " THEN <<"+">>
    ELSE <<"%", HexDigits[(ByteOf(c) \div 16) + 1], HexDigits[(ByteOf(c) % 16) + 1]>>
RECURSIVE UrlEncode(_)
UrlEncode(s) == IF s = <<>> THEN <<>> ELSE UrlEncodeChar(Head(s)) \o UrlEncode(Tail(s))

\* serde_urlencoded::to_string over the pairs in the order the map yields them
RECURSIVE QueryString(_)
QueryString(pairs) ==
    IF pairs = <<>> THEN <<>>
    ELSE UrlEncode(Head(pairs)[1]) \o <<"=">> \o UrlEncode(Head(pairs)[2])
         \o (IF Len(pairs) > 1 THEN <<"&">> ELSE <<>>) \o QueryString(Tail(pairs))

\* The orders in which a HashMap may yield its entries: order ranks the entries.
Orders == { f \in [1..MaxQuery -> 1..MaxQuery] : \A i, j \in 1..MaxQuery : i # j => f[i] # f[j] }

HashMapIter(map, order) ==
    [k \in 1..Len(map) |->
        map[CHOOSE i \in 1..Len(map) :
                Cardinality({ j \in 1..Len(map) : order[j] < order[i] }) = k - 1]]

WithQuery(url, query_params, order) ==
    IF query_params = <<>> THEN url
    ELSE url \o <<"?">> \o QueryString(HashMapIter(query_params, order))

S_making == 
    <<"-", "-", ">", " ", "M", "a", "k", "i", "n", "g", " ">>
S_request_to == 
    <<" ", "r", "e", "q", "u", "e", "s", "t", " ", "t", "o", ":", " ">>
MakingLine(method_str, request_url) == S_making \o method_str \o S_request_to \o request_url

\* how a dispatcher call stands when it returns or reaches its await: resolved is the
\* (path, method) it found, query the query_params map, emits the lines written
Failed(kind, resolved, query, emits) ==
    [kind |-> "err", err |-> kind, resolved |-> resolved, query |-> query, request |-> None,
     emits |-> emits]
Panicked(resolved, query, emits) ==
    [kind |-> "panic", err |-> "", resolved |-> resolved, query |-> query, request |-> None,
     emits |-> emits]
Sent(resolved, query, req, emits) ==
    [kind |-> "sent", err |-> "", resolved |-> resolved, query |-> query, request |-> Some(req),
     emits |-> emits]

\* AttachBody with a body that is not JSON dropped instead of reported
AttachBodyDropsInvalid(operation, matches, resolved, query, method_str, request_url, emits) ==
    LET plain == [method |-> method_str, url |-> request_url, body |-> None,
                  json_content_type |-> FALSE]
    IN  IF ~HasJsonContent(operation.request_body) THEN Sent(resolved, query, plain, emits)
        ELSE LET got == GetOne(matches, S_body)
             IN  IF got.panic THEN Panicked(resolved, query, emits)
                 ELSE IF ~IsSome(got.value) \/ ~IsSome(from_str(Unwrap(got.value)))
                 THEN Sent(resolved, query, plain, emits)
                 ELSE Sent(resolved, query,
                           [plain EXCEPT !.body = from_str(Unwrap(got.value)),
                                         !.json_content_type = TRUE],
                           emits)

\* the request body: only for an operation with application/json content
AttachBody(operation, matches, resolved, query, method_str, request_url, emits) ==
    LET plain == [method |-> method_str, url |-> request_url, body |-> None,
                  json_content_type |-> FALSE]
    IN  IF ~HasJsonContent(operation.request_body) THEN Sent(resolved, query, plain, emits)
        ELSE LET got == GetOne(matches, S_body)
             IN  IF got.panic THEN Panicked(resolved, query, emits)
                 ELSE IF ~IsSome(got.value) THEN Sent(resolved, query, plain, emits)
                 ELSE LET json_body == from_str(Unwrap(got.value))
                      IN  IF ~IsSome(json_body) THEN Failed("json", resolved, query, emits)
                          ELSE Sent(resolved, query,
                                    [plain EXCEPT !.body = json_body, !.json_content_type = TRUE],
                                    emits)

\* from the resolved path item to the request
BuildRequest(base_url, prefix, path_template, path_item, method_str, subcommand_name, matches, order) ==
    LET op_opt == OperationOf(path_item, method_str)
        resolved == Some([path |-> path_template, method |-> method_str])
    IN  IF ~IsSome(op_opt) THEN Failed("operation_not_found", None, <<>>, <<>>)
        ELSE LET operation == Unwrap(op_opt)
                 done == IF IsSome(operation.parameters)
                         THEN ProcessParameters(Unwrap(operation.parameters), matches,
                                                path_template, <<>>)
                         ELSE [panic |-> FALSE, final_path |-> path_template, query_params |-> <<>>]
                 request_url == WithQuery(base_url \o prefix \o done.final_path,
                                          done.query_params, order)
                 emits == <<MakingLine(method_str, request_url)>>
             IN  IF done.panic THEN Panicked(resolved, done.query_params, <<>>)
                 ELSE AttachBody(operation, matches, resolved, done.query_params, method_str,
                                 request_url, emits)

\* execute_request of the native client: the path template is the name's segments
execute_request(base_url, subcommand_name, matches, doc, order) ==
    LET parts == Split(subcommand_name, ".")
        method_str == ToUppercase(parts[Len(parts)])
        path_template == <<"/">> \o Join(SubSeq(parts, 1, Len(parts) - 1), <<"/">>)
        entry == PathsGet(doc, path_template)
    IN  IF ~IsSome(entry) THEN Failed("path_not_found", None, <<>>, <<>>)
        ELSE BuildRequest(base_url, <<>>, path_template, Unwrap(entry)[2], method_str,
                          subcommand_name, matches, order)

\* key.split('/').filter(|s| !s.is_empty())
KeySegments(key) == SelectSeq(Split(key, "/"), LAMBDA g : g # <<>>)

IsParamSegment(ks) == StartsWith(ks, <<"{">>) /\ EndsWith(ks, <<"}">>)

SegmentsMatch(key_segs, command_segments) ==
    /\ Len(key_segs) = Len(command_segments)
    /\ \A k \in 1..Len(key_segs) : IsParamSegment(key_segs[k]) \/ key_segs[k] = command_segments[k]

\* spec.paths.iter().find(..): the first entry in key order whose segments match
FindCandidate(doc, command_segments) ==
    LET hits == { k \in 1..Len(doc.paths) : SegmentsMatch(KeySegments(doc.paths[k][1]), command_segments) }
    IN  IF hits = {} THEN None ELSE Some(doc.paths[CHOOSE k \in hits : \A j \in hits : k <= j])

\* spec.servers: the url of the first server, or the empty string
ServerUrl(doc) ==
    IF IsSome(doc.servers) /\ Unwrap(doc.servers) # <<>> THEN Unwrap(doc.servers)[1] ELSE <<>>

execute_request_wasm(base_url, subcommand_name, matches, doc, order) ==
    LET parts == Split(subcommand_name, ".")
        method_str == ToUppercase(parts[Len(parts)])
        command_segments == SubSeq(parts, 1, Len(parts) - 1)
        candidate == FindCandidate(doc, command_segments)
    IN  IF Len(parts) < 2 THEN Failed("invalid_name", None, <<>>, <<>>)
        ELSE IF ~IsSome(candidate) THEN Failed("path_not_found", None, <<>>, <<>>)
        ELSE BuildRequest(base_url, ServerUrl(doc), Unwrap(candidate)[1], Unwrap(candidate)[2],
                          method_str, subcommand_name, matches, order)

(***************************************************************************)
(* The Completion Engine: ClapCompleter::complete and its helpers.  A      *)
(* Suggestion is its value, its span and append_whitespace; span offsets   *)
(* count the characters before the position.                               *)
(***************************************************************************)
Suggestion(value, span_start, span_end, append_whitespace) ==
    [value |-> value, span |-> <<span_start, span_end>>, append_whitespace |-> append_whitespace]

\* for part in parts.iter().take(count): descend by name, None when a part names no child
RECURSIVE DescendPath(_, _, _)
DescendPath(current_cmd, parts, count) ==
    IF count = 0 \/ parts = <<>> THEN Some(current_cmd)
    ELSE LET k == FindSubcommand(current_cmd, Head(parts))
         IN  IF k = 0 THEN None
             ELSE DescendPath(current_cmd.subcommands[k], Tail(parts), count - 1)

\* find_subcommand_suggestions with the starts_with test on the name left out
find_subcommand_suggestions_all(cmd, parts, current_word, span_start, span_end) ==
    LET relevant_parts_count ==
            IF current_word = <<>> /\ parts # <<>> /\ parts[Len(parts)] # <<>>
            THEN Len(parts) ELSE IF Len(parts) = 0 THEN 0 ELSE Len(parts) - 1
        found == DescendPath(cmd, parts, relevant_parts_count)
    IN  IF ~IsSome(found) THEN <<>>
        ELSE [k \in 1..Len(Unwrap(found).subcommands) |->
                 Suggestion(Unwrap(found).subcommands[k].name, span_start, span_end, TRUE)]

find_subcommand_suggestions(cmd, parts, current_word, span_start, span_end) ==
    LET relevant_parts_count ==
            IF current_word = <<>> /\ parts # <<>> /\ parts[Len(parts)] # <<>>
            THEN Len(parts) ELSE IF Len(parts) = 0 THEN 0 ELSE Len(parts) - 1
        found == DescendPath(cmd, parts, relevant_parts_count)
    IN  IF ~IsSome(found) THEN <<>>
        ELSE LET named == SelectSeq(Unwrap(found).subcommands,
                                    LAMBDA sub_cmd : StartsWith(sub_cmd.name, current_word))
             IN  [k \in 1..Len(named) |-> Suggestion(named[k].name, span_start, span_end, TRUE)]

\* the loop over command.get_arguments(): the long flag, then the short flag unless its
\* text is already suggested
RECURSIVE ArgumentSuggestions(_, _, _, _, _)
ArgumentSuggestions(args, current_word, span_start, span_end, suggestions) ==
    IF args = <<>> THEN suggestions
    ELSE LET arg == Head(args)
             long_flag == S_dashdash \o Unwrap(arg.long)
             short_flag == <<"-">> \o Unwrap(arg.short)
             with_long ==
                 IF IsSome(arg.long) /\ StartsWith(long_flag, current_word)
                 THEN Append(suggestions,
                             Suggestion(long_flag, span_start, span_end, ~arg.takes_values))
                 ELSE suggestions
             with_short ==
                 IF /\ IsSome(arg.short)
                    /\ StartsWith(short_flag, current_word)
                    /\ ~\E k \in 1..Len(with_long) : with_long[k].value = short_flag
                 THEN Append(with_long,
                             Suggestion(short_flag, span_start, span_end, ~arg.takes_values))
                 ELSE with_long
         IN  ArgumentSuggestions(Tail(args), current_word, span_start, span_end, with_short)

find_argument_suggestions(cmd, current_word, span_start, span_end) ==
    IF ~StartsWith(current_word, <<"-">>) THEN <<>>
    ELSE ArgumentSuggestions(cmd.args, current_word, span_start, span_end, <<>>)

find_value_suggestions(arg, current_word, span_start, span_end) ==
    LET named == SelectSeq(arg.possible_values, LAMBDA pv : StartsWith(pv, current_word))
    IN  [k \in 1..Len(named) |-> Suggestion(named[k], span_start, span_end, TRUE)]

RECURSIVE get_command_at_path(_, _)
get_command_at_path(base_cmd, parts) ==
    IF parts = <<>> \/ StartsWith(Head(parts), <<"-">>) THEN base_cmd
    ELSE LET k == FindSubcommand(base_cmd, Head(parts))
         IN  IF k = 0 THEN base_cmd ELSE get_command_at_path(base_cmd.subcommands[k], Tail(parts))

TakesValues(arg_opt) == IsSome(arg_opt) /\ Unwrap(arg_opt).takes_values

\* the loop over the parts ("Parse command path"): where it leaves current_cmd,
\* last_arg_opt and potential_value_completion_context
RECURSIVE WalkParts(_, _, _, _, _)
WalkParts(parts, ends_with_space, idx, current_cmd, last_arg_opt) ==
    IF idx > Len(parts)
    THEN [current_cmd |-> current_cmd, last_arg_opt |-> last_arg_opt, potential |-> FALSE]
    ELSE IF idx = Len(parts) /\ ~ends_with_space
    THEN [current_cmd |-> current_cmd, last_arg_opt |-> last_arg_opt,
          potential |-> TakesValues(last_arg_opt)]
    ELSE IF StartsWith(parts[idx], <<"-">>)
    THEN LET a == FindArg(current_cmd, parts[idx])
         IN  IF a = 0
             THEN [current_cmd |-> current_cmd, last_arg_opt |-> None, potential |-> FALSE]
             ELSE WalkParts(parts, ends_with_space, idx + 1, current_cmd,
                            IF current_cmd.args[a].takes_values THEN Some(current_cmd.args[a])
                            ELSE None)
    ELSE LET after_value == IF TakesValues(last_arg_opt) THEN None ELSE last_arg_opt
             k == FindSubcommand(current_cmd, parts[idx])
         IN  IF k # 0
             THEN WalkParts(parts, ends_with_space, idx + 1, current_cmd.subcommands[k], None)
             ELSE IF ~TakesValues(after_value)
             THEN [current_cmd |-> current_cmd, last_arg_opt |-> after_value,
                   potential |-> FALSE]
             ELSE WalkParts(parts, ends_with_space, idx + 1, current_cmd, None)

\* "Argument suggestions on trailing space": the flags found for the given dashes, a
\* SetTrue flag already on the line left out
TrailingFlags(base_cmd, parts, dashes, span_start, pos) ==
    LET found == find_argument_suggestions(base_cmd, dashes, span_start, pos)
        kind == SelectSeq(found,
                    LAMBDA sugg : IF dashes = S_dashdash THEN StartsWith(sugg.value, S_dashdash)
                                  ELSE StartsWith(sugg.value, <<"-">>)
                                       /\ ~StartsWith(sugg.value, S_dashdash))
        Given(sugg) ==
            LET a == FindArg(base_cmd, sugg.value)
            IN  /\ a # 0
                /\ base_cmd.args[a].set_true
                /\ \E k \in 1..Len(parts) : StartsWith(parts[k], <<"-">>) /\ parts[k] = sugg.value
    IN  SelectSeq(kind, LAMBDA sugg : ~Given(sugg))

\* Deduplicate with seen_values.insert(..) taken to succeed every time
DeduplicateKeepsAll(suggestions, final_suggestions) == final_suggestions \o suggestions

\* "Deduplicate suggestions": the first suggestion of each value is kept
RECURSIVE Deduplicate(_, _)
Deduplicate(suggestions, final_suggestions) ==
    IF suggestions = <<>> THEN final_suggestions
    ELSE Deduplicate(Tail(suggestions),
             IF \E k \in 1..Len(final_suggestions) :
                    final_suggestions[k].value = Head(suggestions).value
             THEN final_suggestions ELSE Append(final_suggestions, Head(suggestions)))

\* "Priority 1: Complete argument values" and "Handle trailing space for value
\* completion": the possible values of the flag before the current word, or of the flag
\* the line ends with
ValueCompletions(command_tree, parts, ends_with_space, current_word, span_start, pos, walk) ==
    (IF walk.potential /\ Len(parts) >= 2
     THEN LET command_for_arg ==
                  get_command_at_path(command_tree, SubSeq(parts, 1, Len(parts) - 2))
              a == FindArg(command_for_arg, parts[Len(parts) - 1])
          IN  IF a # 0 /\ command_for_arg.args[a].takes_values
              THEN find_value_suggestions(command_for_arg.args[a], current_word, span_start, pos)
              ELSE <<>>
     ELSE <<>>)
    \o (IF ends_with_space /\ TakesValues(walk.last_arg_opt)
        THEN find_value_suggestions(Unwrap(walk.last_arg_opt), <<>>, span_start, pos)
        ELSE <<>>)

\* "If no value suggestions, provide other types of completions"
OtherCompletions(current_cmd, parts, ends_with_space, current_word, span_start, pos) ==
    (IF StartsWith(current_word, <<"-">>)
     THEN find_argument_suggestions(current_cmd, current_word, span_start, pos)
     ELSE <<>>)
    \o find_subcommand_suggestions(current_cmd, <<>>, current_word, span_start, pos)
    \o (IF ends_with_space /\ current_word = <<>>
        THEN TrailingFlags(current_cmd, parts, S_dashdash, span_start, pos)
             \o TrailingFlags(current_cmd, parts, <<"-">>, span_start, pos)
        ELSE <<>>)

\* complete from the walk on: `suggestions` as it stands before "Deduplicate
\* suggestions" (produced), and the list returned
CompleteAfterWalk(command_tree, parts, ends_with_space, current_word, span_start, pos, walk) ==
    LET values == ValueCompletions(command_tree, parts, ends_with_space, current_word,
                                   span_start, pos, walk)
        produced == IF values = <<>>
                    THEN OtherCompletions(walk.current_cmd, parts, ends_with_space,
                                          current_word, span_start, pos)
                    ELSE values
    IN  [panic |-> FALSE, produced |-> produced, suggestions |-> Deduplicate(produced, <<>>)]

\* complete from the parts on: the current word and the start of its span
CompleteParts(command_tree, parts, ends_with_space, pos) ==
    LET no_word == ends_with_space \/ parts = <<>>
    IN  IF ~no_word /\ Len(parts[Len(parts)]) > pos
        THEN [panic |-> TRUE, produced |-> <<>>, suggestions |-> <<>>]
        ELSE CompleteAfterWalk(command_tree, parts, ends_with_space,
                 IF no_word THEN <<>> ELSE parts[Len(parts)],
                 IF no_word THEN pos ELSE pos - Len(parts[Len(parts)]),
                 pos,
                 WalkParts(parts, ends_with_space, 1, command_tree, None))

\* the parts of the line up to the cursor: shlex::split, or split_whitespace when a quote
\* is left open
PartsOf(line_to_cursor) ==
    LET split == shlex_split(line_to_cursor)
    IN  IF IsSome(split) THEN Unwrap(split) ELSE split_whitespace(line_to_cursor)

\* ClapCompleter::complete; &line[..pos] panics past the end of the line
complete(command_tree, line, pos) ==
    IF pos > Len(line) THEN [panic |-> TRUE, produced |-> <<>>, suggestions |-> <<>>]
    ELSE CompleteParts(command_tree, PartsOf(SubSeq(line, 1, pos)),
                       EndsWith(SubSeq(line, 1, pos), <<" ">>), pos)

(***************************************************************************)
(* WasmCompleter::complete, which get_completions of the wasm build calls. *)
(* Its file (wasm_completer.rs) is not among the sources: it is modelled   *)
(* from section 4.4 of the specification, the contract it shares with      *)
(* ClapCompleter.                                                          *)
(***************************************************************************)
\* step 2: a value-taking flag of the active node consumes the token after it; TRUE
\* when the last token is such a flag still awaiting its value
RECURSIVE AwaitsValue(_, _, _, _)
AwaitsValue(active, tokens, k, awaiting) ==
    IF k > Len(tokens) THEN awaiting
    ELSE AwaitsValue(active, tokens, k + 1,
             /\ ~awaiting
             /\ FindArg(active, tokens[k]) # 0
             /\ active.args[FindArg(active, tokens[k])].takes_values)

\* step 3b: the flags of the node whose long form, else short form, starts with the
\* word, a boolean flag already among the tokens left out
FlagCandidates(node, tokens, current_word) ==
    LET Form(arg) ==
            IF IsSome(arg.long) /\ StartsWith(S_dashdash \o Unwrap(arg.long), current_word)
            THEN S_dashdash \o Unwrap(arg.long)
            ELSE IF IsSome(arg.short) /\ StartsWith(<<"-">> \o Unwrap(arg.short), current_word)
            THEN <<"-">> \o Unwrap(arg.short)
            ELSE <<>>
        Given(arg) ==
            arg.set_true /\ \E k \in 1..Len(tokens) : FindArg(node, tokens[k]) # 0
                                                       /\ node.args[FindArg(node, tokens[k])] = arg
        offered == SelectSeq(node.args, LAMBDA arg : Form(arg) # <<>> /\ ~Given(arg))
    IN  [k \in 1..Len(offered) |-> Form(offered[k])]

\* step 3c: the names of the node's subcommands that start with the word
NameCandidates(node, current_word) ==
    LET named == SelectSeq(node.subcommands, LAMBDA sc : StartsWith(sc.name, current_word))
    IN  [k \in 1..Len(named) |-> named[k].name]

\* step 3: the candidate values of the context the tokens put the current word in
Candidates(root, tokens, blank, current_word) ==
    LET before == IF current_word = <<>> THEN tokens ELSE SubSeq(tokens, 1, Len(tokens) - 1)
        k == IF before = <<>> THEN 0 ELSE FindSubcommand(root, before[1])
        active == IF k = 0 THEN root ELSE root.subcommands[k]
    IN  IF k # 0 /\ AwaitsValue(active, before, 2, FALSE)
        THEN SelectSeq(active.args[FindArg(active, before[Len(before)])].possible_values,
                       LAMBDA pv : StartsWith(pv, current_word))
        ELSE IF StartsWith(current_word, <<"-">>)
        THEN FlagCandidates(active, before, current_word)
        ELSE IF current_word = <<>> /\ blank
        THEN FlagCandidates(active, before, <<>>) \o NameCandidates(active, <<>>)
        ELSE NameCandidates(root, current_word)

\* steps 1 and 4: the line truncated at the cursor, the current word and its span, the
\* candidates deduplicated by value; never raises
WasmCompleter_complete(root, line, cursor) ==
    LET truncated == SubSeq(line, 1, IF cursor > Len(line) THEN Len(line) ELSE cursor)
        tokens == PartsOf(truncated)
        blank == truncated # <<>> /\ IsShlexSpace(truncated[Len(truncated)])
        current_word == IF blank \/ tokens = <<>> THEN <<>> ELSE tokens[Len(tokens)]
        values == Candidates(root, tokens, blank, current_word)
        keep == { k \in 1..Len(values) : \A j \in 1..(k - 1) : values[j] # values[k] }
    IN  [i \in 1..Cardinality(keep) |->
            [value |-> values[CHOOSE k \in keep : Cardinality({ j \in keep : j <= k }) = i],
             span |-> <<Len(truncated) - Len(current_word), Len(truncated)>>]]

(***************************************************************************)
(* The session: the statics of the wasm build (CLI_COMMAND, SPEC,          *)
(* BASE_URL), or the locals of the native client's run / start_repl.       *)
(***************************************************************************)
S_host == <<"h", "t", "t", "p", ":", "/", "/", "h", "o", "s", "t">>
UrlPool == { S_host }

NoMatches == [ids |-> {}, vals |-> <<>>]
NoCall ==
    [line |-> <<>>, dispatcher |-> "none", name |-> <<>>, matches |-> NoMatches, resolved |-> None,
     query |-> <<>>]
NoOutcome == [kind |-> "none", err |-> "", returned |-> <<>>]
NoLookup == [op |-> "none", index |-> 0, query |-> <<>>, answer |-> <<>>, result |-> "none"]
NoCompletion ==
    [engine |-> "none", line |-> <<>>, pos |-> 0, result |-> "none", produced |-> <<>>,
     suggestions |-> <<>>]

\* run_command_async with its four guards dropped before the request is awaited
LocksDroppedBeforeAwait == {}

\* The locks of the statics that are held between two steps of the session:
\* run_command_async takes the four guards on entry and keeps them to its return, the
\* suspension at execute_request_wasm(...).await included; every other exported function
\* drops its guards before it returns.
LocksHeld ==
    IF target = "wasm" /\ pc = "awaiting" THEN {"CLI_COMMAND", "SPEC", "BASE_URL", "HISTORY"}
    ELSE {}

\* X.lock().unwrap() on a lock the suspended run_command_async holds.  std's Mutex is not
\* reentrant: the build without threads panics ("cannot recursively acquire mutex"), a
\* build with threads parks the only thread of the session for good.  The call does not
\* return in either.
Contended(op, index, query) ==
    /\ \E how \in {"panicked", "blocked"} :
          /\ pc' = how
          /\ lookup' = [op |-> op, index |-> index, query |-> query, answer |-> <<>>,
                        result |-> how]
    /\ UNCHANGED <<spec, command, baseUrl, target, call, request, response, outcome, emitted,
                   history, compl>>

Init ==
    /\ spec = None
    /\ command = None
    /\ baseUrl = None
    /\ target = "none"
    /\ pc = "idle"
    /\ call = NoCall
    /\ request = None
    /\ response = None
    /\ outcome = NoOutcome
    /\ emitted = <<>>
    /\ history = <<>>
    /\ compl = NoCompletion
    /\ lookup = NoLookup

\* init_cli(spec_json, base_url): the spec deserialized, compiled and stored
InitCli(doc, url) ==
    /\ target \in {"none", "wasm"}
    /\ pc \in {"idle", "awaiting"}
    /\ IF "CLI_COMMAND" \in LocksHeld THEN Contended("init_cli", 0, <<>>)
       ELSE /\ spec' = Some(doc)
            /\ command' = Some(build_cli_from_spec(doc))
            /\ baseUrl' = Some(url)
            /\ target' = "wasm"
            /\ UNCHANGED <<pc, call, request, response, outcome, emitted, history, compl,
                           lookup>>

\* The native client up to its prompt: the url is given, the spec is fetched,
\* start_repl compiles it.
StartRepl(doc, url) ==
    /\ target = "none"
    /\ pc = "idle"
    /\ spec' = Some(doc)
    /\ command' = Some(build_cli_from_spec(doc))
    /\ baseUrl' = Some(url)
    /\ target' = "native"
    /\ UNCHANGED <<pc, call, request, response, outcome, emitted, history, compl, lookup>>

(***************************************************************************)
(* The command lines of the model: for each subcommand of a compiled tree, *)
(* each way of leaving a flag out or giving it one of its sample values,   *)
(* and a few lines that name no subcommand.                                *)
(***************************************************************************)
V_42 == <<"4", "2">>
V_TRUE == <<"T", "R", "U", "E">>
V_a_b == <<"a", " ", "b">>
V_json == <<"{", "\"", "a", "\"", ":", " ", "1", "}">>
V_json_bare == <<"{", "\"", "a", "\"", ":", "1", "}">>

Quoted(v) == <<"'">> \o v \o <<"'">>

\* the texts written after a flag: plain, upper case, quoted with a blank; for body a
\* quoted JSON object and the same object written without the shell quotes
ValueTexts(arg) ==
    IF arg.id = S_body
    THEN << Quoted(V_json), V_json_bare >>
    ELSE << V_42, V_TRUE, Quoted(V_a_b) >>

RECURSIVE FlagsText(_, _, _)
FlagsText(args, choice, k) ==
    IF k > Len(args) THEN <<>>
    ELSE (IF choice[k] = 0 THEN <<>>
          ELSE <<" ">> \o S_dashdash \o Unwrap(args[k].long) \o <<" ">> \o ValueTexts(args[k])[choice[k]])
         \o FlagsText(args, choice, k + 1)

LinesOfSubcommand(sub) ==
    { sub.name \o FlagsText(sub.args, choice, 1) :
        choice \in { c \in [1..Len(sub.args) -> 0..3] :
                        \A k \in 1..Len(sub.args) : c[k] <= Len(ValueTexts(sub.args[k])) } }

S_exit == <<"e", "x", "i", "t">>
S_quit == <<"q", "u", "i", "t">>
FixedLines ==
    { <<>>, <<" ">>, S_help, S_exit, <<"q", "u", "i", "t", " ">>, <<"n", "o", "p", "e">>,
      <<"n", "o", "p", "e", " ", "'", "x">> }

Lines(cmd_opt) ==
    FixedLines \cup
    (IF IsSome(cmd_opt)
     THEN UNION { LinesOfSubcommand(Unwrap(cmd_opt).subcommands[k]) :
                    k \in 1..Len(Unwrap(cmd_opt).subcommands) }
     ELSE {})

(***************************************************************************)
(* run_command_async of the wasm build and one turn of start_repl's loop,  *)
(* each up to the point where the request is handed to the transport.      *)
(***************************************************************************)
HistoryCapacity == 1000

\* Recorded with pop_back() for pop_front(): beyond 1000 the newest entry is dropped
RecordedDropsNewest(hist, command_line) ==
    LET trimmed_command == Trim(command_line)
    IN  IF trimmed_command # <<>> /\ (hist = <<>> \/ hist[Len(hist)] # trimmed_command)
        THEN LET pushed == Append(hist, trimmed_command)
             IN  IF Len(pushed) > HistoryCapacity THEN SubSeq(pushed, 1, Len(pushed) - 1)
                 ELSE pushed
        ELSE hist

\* Recorded without the comparison with the back of the history
RecordedEveryLine(hist, command_line) ==
    LET trimmed_command == Trim(command_line)
    IN  IF trimmed_command # <<>>
        THEN LET pushed == Append(hist, trimmed_command)
             IN  IF Len(pushed) > HistoryCapacity THEN Tail(pushed) ELSE pushed
        ELSE hist

\* history_guard.push_back(..) unless empty or equal to the back; the front popped beyond 1000
Recorded(hist, command_line) ==
    LET trimmed_command == Trim(command_line)
    IN  IF trimmed_command # <<>> /\ (hist = <<>> \/ hist[Len(hist)] # trimmed_command)
        THEN LET pushed == Append(hist, trimmed_command)
             IN  IF Len(pushed) > HistoryCapacity THEN Tail(pushed) ELSE pushed
        ELSE hist

Returned(kind, err) == [kind |-> kind, err |-> err, returned |-> <<>>]

\* the state a dispatcher call leaves behind
Dispatched(dispatcher, line, m, d) ==
    /\ call' = [line |-> line, dispatcher |-> dispatcher, name |-> m.name,
                matches |-> [ids |-> m.ids, vals |-> m.vals], resolved |-> d.resolved,
                query |-> d.query]
    /\ request' = d.request
    /\ response' = None
    /\ emitted' = d.emits
    /\ outcome' = IF d.kind = "sent" THEN Returned("pending", "") ELSE Returned(d.kind, d.err)
    /\ pc' = CASE d.kind = "sent" -> "awaiting" [] d.kind = "panic" -> "panicked" [] OTHER -> "done"

\* a line that ends before the dispatcher is called
NotDispatched(line, kind, err, next_pc) ==
    /\ call' = [NoCall EXCEPT !.line = line]
    /\ request' = None
    /\ response' = None
    /\ emitted' = <<>>
    /\ outcome' = Returned(kind, err)
    /\ pc' = next_pc

\* RunCommandAsync with the line recorded after shlex::split instead of before it
RunCommandAsyncRecordsLate(command_line, order) ==
    /\ target \in {"none", "wasm"}
    /\ pc = "idle"
    /\ UNCHANGED <<spec, command, baseUrl, target, compl, lookup>>
    /\ IF ~IsSome(command) \/ ~IsSome(spec) \/ ~IsSome(baseUrl)
       THEN /\ NotDispatched(command_line, "err", "not_initialized", "done")
            /\ UNCHANGED history
       ELSE LET args == shlex_split(command_line)
            IN  IF ~IsSome(args)
                THEN /\ NotDispatched(command_line, "err", "tokenize", "done")
                     /\ UNCHANGED history
                ELSE /\ history' = Recorded(history, command_line)
                     /\ LET m == try_get_matches_from(Unwrap(command), Unwrap(args))
                        IN  IF ~m.ok THEN NotDispatched(command_line, "err", "parse", "done")
                            ELSE Dispatched("wasm", command_line, m,
                                     execute_request_wasm(Unwrap(baseUrl), m.name, m,
                                                          Unwrap(spec), order))

\* run_command_async(command_line): the four locks are taken first, CLI_COMMAND before
\* the others
RunCommandAsync(command_line, order) ==
    /\ target \in {"none", "wasm"}
    /\ pc \in {"idle", "awaiting"}
    /\ IF "CLI_COMMAND" \in LocksHeld THEN Contended("run_command_async", 0, command_line)
       ELSE /\ UNCHANGED <<spec, command, baseUrl, target, compl, lookup>>
            /\ IF ~IsSome(command) \/ ~IsSome(spec) \/ ~IsSome(baseUrl)
               THEN /\ NotDispatched(command_line, "err", "not_initialized", "done")
                    /\ UNCHANGED history
               ELSE /\ history' = Recorded(history, command_line)
                    /\ LET args == shlex_split(command_line)
                       IN  IF ~IsSome(args)
                           THEN NotDispatched(command_line, "err", "tokenize", "done")
                           ELSE LET m == try_get_matches_from(Unwrap(command), Unwrap(args))
                                IN  IF ~m.ok
                                    THEN NotDispatched(command_line, "err", "parse", "done")
                                    ELSE Dispatched("wasm", command_line, m,
                                             execute_request_wasm(Unwrap(baseUrl), m.name, m,
                                                                  Unwrap(spec), order))

\* ReplLine with the loop left after a line that clap refuses
ReplLineEndsOnParseError(buffer, order) ==
    /\ target = "native"
    /\ pc = "idle"
    /\ UNCHANGED <<spec, command, baseUrl, target, history, compl, lookup>>
    /\ LET line == Trim(buffer)
       IN  IF line = <<>> THEN NotDispatched(buffer, "none", "", "done")
           ELSE IF line = S_exit \/ line = S_quit THEN NotDispatched(buffer, "none", "", "exited")
           ELSE IF line = S_help THEN NotDispatched(buffer, "none", "help", "done")
           ELSE LET split == shlex_split(line)
                    args == IF IsSome(split) THEN Unwrap(split) ELSE <<line>>
                    m == try_get_matches_from(Unwrap(command), args)
                IN  IF ~m.ok THEN NotDispatched(buffer, "err", "parse", "exited")
                    ELSE Dispatched("native", buffer, m,
                             execute_request(Unwrap(baseUrl), m.name, m, Unwrap(spec), order))

\* Signal::Success(buffer) in start_repl.  The loop calls api_cli::client::execute_request,
\* whose file is not among the sources; execute_request of forge-core, of the same
\* signature and called the same way by run_with_cli_args, stands for it.
ReplLine(buffer, order) ==
    /\ target = "native"
    /\ pc = "idle"
    /\ UNCHANGED <<spec, command, baseUrl, target, history, compl, lookup>>
    /\ LET line == Trim(buffer)
       IN  IF line = <<>> THEN NotDispatched(buffer, "none", "", "done")
           ELSE IF line = S_exit \/ line = S_quit THEN NotDispatched(buffer, "none", "", "exited")
           ELSE IF line = S_help THEN NotDispatched(buffer, "none", "help", "done")
           ELSE LET split == shlex_split(line)
                    args == IF IsSome(split) THEN Unwrap(split) ELSE <<line>>
                    m == try_get_matches_from(Unwrap(command), args)
                IN  IF ~m.ok THEN NotDispatched(buffer, "err", "parse", "done")
                    ELSE Dispatched("native", buffer, m,
                             execute_request(Unwrap(baseUrl), m.name, m, Unwrap(spec), order))

\* Signal::CtrlD | Signal::CtrlC
ReplInterrupt ==
    /\ target = "native"
    /\ pc = "idle"
    /\ pc' = "exited"
    /\ UNCHANGED <<spec, command, baseUrl, target, call, request, response, outcome, emitted,
                   history, compl, lookup>>

\* line_editor.read_line(&prompt)? with the reader's Err: start_repl returns it
ReplReadFails ==
    /\ target = "native"
    /\ pc = "idle"
    /\ pc' = "exited"
    /\ outcome' = Returned("err", "io")
    /\ UNCHANGED <<spec, command, baseUrl, target, call, request, response, emitted, history,
                   compl, lookup>>

\* clear_history with the stored command tree cleared as well
ClearHistoryAndCommand ==
    /\ target \in {"none", "wasm"}
    /\ pc \in {"idle", "awaiting"}
    /\ IF "HISTORY" \in LocksHeld THEN Contended("clear_history", 0, <<>>)
       ELSE /\ history' = <<>>
            /\ command' = None
            /\ UNCHANGED <<spec, baseUrl, target, pc, call, request, response, outcome,
                           emitted, compl, lookup>>

\* clear_history
ClearHistory ==
    /\ target \in {"none", "wasm"}
    /\ pc \in {"idle", "awaiting"}
    /\ IF "HISTORY" \in LocksHeld THEN Contended("clear_history", 0, <<>>)
       ELSE /\ history' = <<>>
            /\ UNCHANGED <<spec, command, baseUrl, target, pc, call, request, response, outcome,
                           emitted, compl, lookup>>

(***************************************************************************)
(* Reading the history: get_history, get_history_item, search_history.     *)
(***************************************************************************)
\* serde_json writes a string between quotes, with '"', '\' and the control characters
\* escaped
JsonEscape(c) ==
    CASE c = "\"" -> <<"\\", "\"">>
      [] c = "\\" -> <<"\\", "\\">>
      [] c = "\n" -> <<"\\", "n">>
      [] c = "\t" -> <<"\\", "t">>
      [] OTHER -> <<c>>

RECURSIVE JsonString(_)
JsonString(s) == IF s = <<>> THEN <<>> ELSE JsonEscape(Head(s)) \o JsonString(Tail(s))

\* serde_json::to_string of a Vec<&String>
RECURSIVE JsonItems(_)
JsonItems(items) ==
    IF items = <<>> THEN <<>>
    ELSE <<"\"">> \o JsonString(Head(items)) \o <<"\"">>
         \o (IF Len(items) > 1 THEN <<",">> ELSE <<>>) \o JsonItems(Tail(items))
to_string(items) == <<"[">> \o JsonItems(items) \o <<"]">>

\* get_history_item with a non-negative index counted from the front: actual_index = index
get_history_item_chronological(hist, index) ==
    IF hist = <<>> THEN None
    ELSE LET len == Len(hist)
             actual_index == IF index < 0 THEN len + index ELSE index
         IN  IF actual_index >= 0 /\ actual_index < len THEN Some(hist[actual_index + 1])
             ELSE None

\* get_history_item with a negative index counted from the front: actual_index = -index - 1
get_history_item_from_front(hist, index) ==
    IF hist = <<>> THEN None
    ELSE LET len == Len(hist)
             actual_index == IF index < 0 THEN 0 - index - 1 ELSE len - 1 - index
         IN  IF actual_index >= 0 /\ actual_index < len THEN Some(hist[actual_index + 1])
             ELSE None

\* get_history_item with the index wrapped into the history instead of tested
get_history_item_wrapping(hist, index) ==
    IF hist = <<>> THEN None
    ELSE LET len == Len(hist)
             actual_index == IF index < 0 THEN len + index ELSE len - 1 - index
         IN  Some(hist[(actual_index % len) + 1])

\* get_history_item(index: i32): the VecDeque is indexed from its front, the oldest entry
get_history_item(hist, index) ==
    IF hist = <<>> THEN None
    ELSE LET len == Len(hist)
             actual_index == IF index < 0 THEN len + index ELSE len - 1 - index
         IN  IF actual_index >= 0 /\ actual_index < len THEN Some(hist[actual_index + 1])
             ELSE None

\* str::contains
str_contains(item, query) ==
    \E i \in 0..(Len(item) - Len(query)) : SubSeq(item, i + 1, i + Len(query)) = query

SearchLimit == 10

\* search_history with the history searched from its front: .rev() left out
search_history_oldest_first(hist, query) ==
    LET matches == SelectSeq(hist, LAMBDA item : str_contains(item, query))
    IN  to_string(SubSeq(matches, 1,
                         IF Len(matches) < SearchLimit THEN Len(matches) ELSE SearchLimit))

\* search_history(query): iter().rev().filter(contains).take(10), as JSON
search_history(hist, query) ==
    LET matches == SelectSeq([k \in 1..Len(hist) |-> hist[Len(hist) + 1 - k]],
                             LAMBDA item : str_contains(item, query))
    IN  to_string(SubSeq(matches, 1,
                         IF Len(matches) < SearchLimit THEN Len(matches) ELSE SearchLimit))

GetHistory ==
    /\ target \in {"none", "wasm"}
    /\ pc \in {"idle", "awaiting"}
    /\ IF "HISTORY" \in LocksHeld THEN Contended("get_history", 0, <<>>)
       ELSE /\ lookup' = [op |-> "get_history", index |-> 0, query |-> <<>>,
                          answer |-> to_string(history), result |-> "ok"]
            /\ UNCHANGED <<spec, command, baseUrl, target, pc, call, request, response, outcome,
                           emitted, history, compl>>

GetHistoryItem(index) ==
    /\ target \in {"none", "wasm"}
    /\ pc \in {"idle", "awaiting"}
    /\ IF "HISTORY" \in LocksHeld THEN Contended("get_history_item", index, <<>>)
       ELSE /\ lookup' = [op |-> "get_history_item", index |-> index, query |-> <<>>,
                          answer |-> get_history_item(history, index), result |-> "ok"]
            /\ UNCHANGED <<spec, command, baseUrl, target, pc, call, request, response, outcome,
                           emitted, history, compl>>

SearchHistory(query) ==
    /\ target \in {"none", "wasm"}
    /\ pc \in {"idle", "awaiting"}
    /\ IF "HISTORY" \in LocksHeld THEN Contended("search_history", 0, query)
       ELSE /\ lookup' = [op |-> "search_history", index |-> 0, query |-> query,
                          answer |-> search_history(history, query), result |-> "ok"]
            /\ UNCHANGED <<spec, command, baseUrl, target, pc, call, request, response, outcome,
                           emitted, history, compl>>

(***************************************************************************)
(* The transport's answer and what the dispatcher makes of it.             *)
(***************************************************************************)
Status(code, reason) == [code |-> code, reason |-> reason]
StatusPool ==
    { Status(<<"2", "0", "0">>, <<"O", "K">>),
      Status(<<"4", "0", "4">>, <<"N", "o", "t", " ", "F", "o", "u", "n", "d">>) }
BodyPool == { <<"o", "k">>, V_json_bare }

S_response_status == 
    <<"<", "-", "-", " ", "R", "e", "s", "p", "o", "n", "s", "e", " ", "S", "t", "a", "t", "u",
      "s", ":", " ">>

\* a reqwest StatusCode is displayed with its reason, the wasm build logs the number
StatusLine(dispatcher, status) ==
    S_response_status \o
        (IF dispatcher = "native" THEN status.code \o <<" ">> \o status.reason ELSE status.code)

\* pretty-printed when the body is JSON, verbatim otherwise
FormatBody(response_body) ==
    LET json_body == from_str(response_body)
    IN  IF IsSome(json_body) THEN to_string_pretty(Unwrap(json_body)) ELSE response_body

\* send().await / fetch: the transport fails
TransportFails ==
    /\ pc = "awaiting"
    /\ response' = Some([failed |-> TRUE, status |-> Status(<<>>, <<>>), body |-> <<>>])
    /\ outcome' = Returned("err", "transport")
    /\ pc' = "done"
    /\ UNCHANGED <<spec, command, baseUrl, target, call, request, emitted, history, compl, lookup>>

\* the response arrives, its text cannot be read
BodyFails(status) ==
    /\ pc = "awaiting"
    /\ response' = Some([failed |-> TRUE, status |-> status, body |-> <<>>])
    /\ emitted' = Append(emitted, StatusLine(call.dispatcher, status))
    /\ outcome' = Returned("err", "transport")
    /\ pc' = "done"
    /\ UNCHANGED <<spec, command, baseUrl, target, call, request, history, compl, lookup>>

\* Receive with a status outside 2xx turned into an error, as error_for_status would
ReceiveErrorForStatus(status, response_body) ==
    /\ pc = "awaiting"
    /\ response' = Some([failed |-> FALSE, status |-> status, body |-> response_body])
    /\ IF status.code[1] # "2"
       THEN /\ emitted' = emitted
            /\ outcome' = Returned("err", "status")
       ELSE IF call.dispatcher = "native"
       THEN /\ emitted' = emitted \o <<StatusLine("native", status), FormatBody(response_body)>>
            /\ outcome' = Returned("ok", "")
       ELSE /\ emitted' = Append(emitted, StatusLine("wasm", status))
            /\ outcome' = [kind |-> "ok", err |-> "", returned |-> FormatBody(response_body)]
    /\ pc' = "done"
    /\ UNCHANGED <<spec, command, baseUrl, target, call, request, history, compl, lookup>>

\* the response arrives with its text, whatever the status
Receive(status, response_body) ==
    /\ pc = "awaiting"
    /\ response' = Some([failed |-> FALSE, status |-> status, body |-> response_body])
    /\ IF call.dispatcher = "native"
       THEN /\ emitted' = emitted \o <<StatusLine("native", status), FormatBody(response_body)>>
            /\ outcome' = Returned("ok", "")
       ELSE /\ emitted' = Append(emitted, StatusLine("wasm", status))
            /\ outcome' = [kind |-> "ok", err |-> "", returned |-> FormatBody(response_body)]
    /\ pc' = "done"
    /\ UNCHANGED <<spec, command, baseUrl, target, call, request, history, compl, lookup>>

\* the result is with the caller: the next line may be given
Prompt ==
    /\ target # "once"
    /\ pc = "done"
    /\ pc' = "idle"
    /\ call' = NoCall
    /\ request' = None
    /\ response' = None
    /\ outcome' = NoOutcome
    /\ emitted' = <<>>
    /\ UNCHANGED <<spec, command, baseUrl, target, history, compl, lookup>>

Compile ==
    \E doc \in Docs, url \in UrlPool : InitCli(doc, url) \/ StartRepl(doc, url)

SpecCompile == Init /\ [][Compile]_vars

\* The dispatchers read the line, the command tree, the document and the base url, and
\* nothing of the history: the sessions followed are set up and given their lines while
\* the history is empty.
Setup == history = <<>> /\ Compile

Submit ==
    /\ history = <<>>
    /\ \E line \in Lines(command), order \in Orders :
           RunCommandAsync(line, order) \/ ReplLine(line, order)

Answer ==
    \/ TransportFails
    \/ \E status \in StatusPool : BodyFails(status)
    \/ \E status \in StatusPool, response_body \in BodyPool : Receive(status, response_body)

NextDispatch ==
    Setup \/ Submit \/ Answer \/ Prompt \/ ClearHistory \/ ReplInterrupt \/ ReplReadFails

SpecDispatch == Init /\ [][NextDispatch]_vars

(***************************************************************************)
(* The history of a wasm session.  The history depends on the lines alone: *)
(* one document is loaded, with an operation whose request is sent         *)
(* (users.id.get) and one whose body is refused (users.id.put).            *)
(***************************************************************************)
HistoryDoc == Document({ e \in PathPool : e.segs = Segs_users_id_var }, None)

S_nope == <<"n", "o", "p", "e">>
N_users_id_get == CommandName(Template(Segs_users_id_var), GET)
N_users_id_put == CommandName(Template(Segs_users_id_var), PUT)

\* a line that is sent, the same with blanks around it, a body that is not JSON, an
\* unknown subcommand, an open quote, a blank line
HistoryLines ==
    { N_users_id_get,
      <<" ">> \o N_users_id_get \o <<" ">>,
      N_users_id_put \o <<" ">> \o S_dashdash \o S_body \o <<" ">> \o V_json_bare,
      S_nope,
      S_nope \o <<" ", "'", "x">>,
      <<" ">> }

\* the caller has the answer of its lookup
ReadAnswer ==
    /\ lookup # NoLookup
    /\ lookup' = NoLookup
    /\ UNCHANGED <<spec, command, baseUrl, target, pc, call, request, response, outcome, emitted,
                   history, compl>>

SetupHistory == lookup = NoLookup /\ \E url \in UrlPool : InitCli(HistoryDoc, url)

SubmitHistory ==
    /\ lookup = NoLookup
    /\ \E line \in HistoryLines, order \in Orders :
           /\ Len(Recorded(history, line)) <= MaxHistory
           /\ RunCommandAsync(line, order)

Indexes == (0 - MaxHistory - 1)..(MaxHistory + 1)

LookupHistory ==
    /\ lookup = NoLookup
    /\ \/ GetHistory
       \/ \E index \in Indexes : GetHistoryItem(index)

ClearHistoryIdle == lookup = NoLookup /\ ClearHistory

NextHistory ==
    SetupHistory \/ SubmitHistory \/ Answer \/ Prompt \/ ClearHistoryIdle \/ LookupHistory
        \/ ReadAnswer

SpecHistory == Init /\ [][NextHistory]_vars

(***************************************************************************)
(* A long wasm session: help first, then lines that name no subcommand,    *)
(* until the history is full and beyond.                                   *)
(***************************************************************************)
LongLines == { S_nope, S_quit }

SubmitLong ==
    /\ lookup = NoLookup
    /\ \E line \in (IF history = <<>> THEN { S_help } ELSE LongLines), order \in Orders :
           RunCommandAsync(line, order)

Queries == { <<>>, <<"n", "o">>, S_quit, <<"x">> }

SearchAny ==
    /\ lookup = NoLookup
    /\ Len(history) <= MaxSearched
    /\ \E query \in Queries : SearchHistory(query)

NextLong ==
    SetupHistory \/ SubmitLong \/ Prompt \/ ClearHistoryIdle \/ SearchAny \/ ReadAnswer

SpecLong == Init /\ [][NextLong]_vars

(***************************************************************************)
(* Completion at the prompt of start_repl: the line editor calls complete  *)
(* with the buffer and the cursor position.                                *)
(***************************************************************************)
\* the line of a subcommand with every flag given its first sample value, and a space
FullLine(sub) == sub.name \o FlagsText(sub.args, [k \in 1..Len(sub.args) |-> 1], 1) \o <<" ">>

FixedBuffers ==
    { <<"u", "s", "e", "r", "s", ".", "m", "e", ".", "g", "e", "t", "\t">>,
      <<"'", "v", "1", ".", "a", "d", "d", ".", "g", "e", "t", "'", " ", "-", "-", "b">>,
      <<"n", "o", "p", "e", " ", "-", "-", "q", " ">> }

\* a subcommand followed by the name of a subcommand
TwoNames(sub) == sub.name \o <<" ">> \o sub.name

Buffers(cmd) ==
    FixedBuffers \cup { FullLine(cmd.subcommands[k]) : k \in 1..Len(cmd.subcommands) }
                 \cup { TwoNames(cmd.subcommands[k]) : k \in 1..Len(cmd.subcommands) }

Complete(line, pos) ==
    /\ target = "native"
    /\ pc = "idle"
    /\ compl = NoCompletion
    /\ LET done == complete(Unwrap(command), line, pos)
       IN  /\ compl' = [engine |-> "ClapCompleter", line |-> line, pos |-> pos,
                        result |-> IF done.panic THEN "panic" ELSE "ok",
                        produced |-> done.produced, suggestions |-> done.suggestions]
           /\ pc' = IF done.panic THEN "panicked" ELSE pc
    /\ UNCHANGED <<spec, command, baseUrl, target, call, request, response, outcome, emitted,
                   history, lookup>>

\* the suggestions are taken or dismissed
CloseMenu ==
    /\ pc = "idle"
    /\ compl # NoCompletion
    /\ compl' = NoCompletion
    /\ UNCHANGED <<spec, command, baseUrl, target, pc, call, request, response, outcome, emitted,
                   history, lookup>>

CompleteAny ==
    /\ IsSome(command)
    /\ \E line \in Buffers(Unwrap(command)) : \E pos \in 0..(Len(line) + 1) : Complete(line, pos)

\* get_completions of the wasm build: "[]" while no command is stored, else the list of
\* WasmCompleter::complete, each as the JSON of its value and span
GetCompletions(line, cursor_pos) ==
    /\ target \in {"none", "wasm"}
    /\ pc \in {"idle", "awaiting"}
    /\ compl = NoCompletion
    /\ IF "CLI_COMMAND" \in LocksHeld THEN Contended("get_completions", cursor_pos, line)
       ELSE /\ compl' = [engine |-> "WasmCompleter", line |-> line, pos |-> cursor_pos,
                         result |-> "ok", produced |-> <<>>,
                         suggestions |-> IF ~IsSome(command) THEN <<>>
                                         ELSE WasmCompleter_complete(Unwrap(command), line,
                                                                     cursor_pos)]
            /\ UNCHANGED <<spec, command, baseUrl, target, pc, call, request, response, outcome,
                           emitted, history, lookup>>

GetCompletionsAny ==
    \E line \in (IF IsSome(command) THEN Buffers(Unwrap(command)) ELSE FixedBuffers) :
        \E cursor_pos \in 0..(Len(line) + 1) : GetCompletions(line, cursor_pos)

\* compl holds a list next to the command tree it was computed from: the tree is
\* compiled, or compiled anew, while no list is held.
CompileForMenu == compl = NoCompletion /\ Compile

NextComplete == CompileForMenu \/ CompleteAny \/ GetCompletionsAny \/ CloseMenu

SpecComplete == Init /\ [][NextComplete]_vars

(***************************************************************************)
(* A whole session of either client: lines, completions and every call of  *)
(* the history, between two lines and, in the wasm build, while the        *)
(* request of a line is awaited; the session is initialized again at any   *)
(* prompt.                                                                 *)
(***************************************************************************)
SessionDocs == { HistoryDoc, Document({ e \in PathPool : e.segs = Segs_users_me }, None) }

\* a line that is sent, an unknown subcommand, an open quote, exit
SessionLines == { N_users_id_get, S_nope, S_nope \o <<" ", "'", "x">>, S_exit }

SessionBuffers == { S_nope, N_users_id_get \o <<" ">> }

AtRest == lookup = NoLookup /\ compl = NoCompletion

SetupSession ==
    /\ AtRest
    /\ \E doc \in SessionDocs, url \in UrlPool : InitCli(doc, url) \/ StartRepl(doc, url)

SubmitSession ==
    /\ AtRest
    /\ \E line \in SessionLines, order \in Orders :
           \/ Len(Recorded(history, line)) <= MaxHistory /\ RunCommandAsync(line, order)
           \/ ReplLine(line, order)

LookupSession ==
    /\ AtRest
    /\ \/ GetHistory
       \/ \E index \in {0, 0 - 1} : GetHistoryItem(index)
       \/ SearchHistory(S_nope)
       \/ ClearHistory

CompleteSession ==
    /\ AtRest
    /\ \E line \in SessionBuffers :
           \/ GetCompletions(line, Len(line))
           \/ IsSome(command) /\ Complete(line, Len(line))

NextSession ==
    SetupSession \/ SubmitSession \/ Answer \/ Prompt \/ LookupSession \/ CompleteSession
        \/ ReadAnswer \/ CloseMenu \/ ReplInterrupt \/ ReplReadFails

SpecSession == Init /\ [][NextSession]_vars

(***************************************************************************)
(* The start of the native client: api_cli of cargo-forge, run of api_cli  *)
(* and run of forge-api-cli.  The url comes from --url or API_URL (the     *)
(* first positional of forge-api-cli); with one, the spec is fetched, and  *)
(* the arguments left select the loop (none) or one command.               *)
(***************************************************************************)
Entries == {"cargo-forge", "api-cli", "forge-api-cli"}

S_usage == <<"U", "s", "a", "g", "e">>
S_fetching == <<"-", "-", ">", " ", "F", "e", "t", "c", "h", "i", "n", "g">>

\* Start with the spec fetched before the url is looked at
StartFetchesFirst(entry, url_opt, fetched, line, order) ==
    /\ target = "none"
    /\ pc = "idle"
    /\ target' = "native"
    /\ emitted' = <<S_fetching>>
    /\ outcome' = Returned("err", "spec")
    /\ pc' = "exited"
    /\ UNCHANGED <<spec, command, baseUrl, call, request, response, history, compl, lookup>>

\* url_opt: the url given, if any; fetched: the document the service answered the fetch
\* with, if it did; line: the arguments after the url, as the shell split them
Start(entry, url_opt, fetched, line, order) ==
    /\ target = "none"
    /\ pc = "idle"
    /\ UNCHANGED <<history, compl, lookup>>
    /\ IF ~IsSome(url_opt)
       THEN /\ target' = "native"
            /\ emitted' = <<S_usage>>
            /\ outcome' = Returned("ok", "")
            /\ pc' = "exited"
            /\ UNCHANGED <<spec, command, baseUrl, call, request, response>>
       ELSE IF ~IsSome(fetched)
       THEN /\ target' = "native"
            /\ baseUrl' = url_opt
            /\ emitted' = <<S_fetching>>
            /\ outcome' = Returned("err", "spec")
            /\ pc' = "exited"
            /\ UNCHANGED <<spec, command, call, request, response>>
       ELSE LET doc == Unwrap(fetched)
                cmd == build_cli_from_spec(doc)
                forwarded == Unwrap(shlex_split(line))
                args == IF entry = "forge-api-cli" THEN Tail(forwarded) ELSE forwarded
                m == try_get_matches_from(cmd, args)
            IN  /\ spec' = fetched
                /\ command' = Some(cmd)
                /\ baseUrl' = url_opt
                /\ IF forwarded = <<>>
                   THEN /\ target' = "native"
                        /\ UNCHANGED <<pc, call, request, response, outcome, emitted>>
                   ELSE /\ target' = "once"
                        /\ IF ~m.ok
                           THEN NotDispatched(line, IF entry = "cargo-forge" THEN "ok" ELSE "err",
                                              "parse", "done")
                           ELSE Dispatched("native", line, m,
                                    execute_request(Unwrap(url_opt), m.name, m, doc, order))

\* Return with the error of the command dropped
ReturnDropsError ==
    /\ target = "once"
    /\ pc = "done"
    /\ pc' = "exited"
    /\ outcome' = Returned("ok", "")
    /\ UNCHANGED <<spec, command, baseUrl, target, call, request, response, emitted, history,
                   compl, lookup>>

\* execute_request(..).await? and the Ok(()) after it: the entry point returns what the
\* command ended with
Return ==
    /\ target = "once"
    /\ pc = "done"
    /\ pc' = "exited"
    /\ UNCHANGED <<spec, command, baseUrl, target, call, request, response, outcome, emitted,
                   history, compl, lookup>>

\* the arguments of one command: the lines of the model that the shell splits
OnceLines(cmd) ==
    { line \in Lines(Some(cmd)) : IsSome(shlex_split(line)) }

StartAny ==
    \E entry \in Entries, url_opt \in {None} \cup { Some(url) : url \in UrlPool },
       fetched \in {None} \cup { Some(doc) : doc \in SessionDocs }, order \in Orders :
        \E line \in (IF IsSome(fetched) THEN OnceLines(build_cli_from_spec(Unwrap(fetched)))
                                        ELSE { <<>> }) :
            Start(entry, url_opt, fetched, line, order)

SubmitRepl == \E line \in Lines(command), order \in Orders : ReplLine(line, order)

NextStartup ==
    StartAny \/ SubmitRepl \/ Answer \/ Prompt \/ Return \/ ReplInterrupt \/ ReplReadFails

SpecStartup == Init /\ [][NextStartup]_vars

(***************************************************************************)
(* What the compiled tree is compared with: the (path, method) pairs of a  *)
(* document in the compiler's iteration order, and the name written from   *)
(* the segments of the template.                                           *)
(***************************************************************************)
RECURSIVE DefinedMethods(_, _)
DefinedMethods(item, methods) ==
    IF methods = <<>> THEN <<>>
    ELSE (IF IsSome(OperationOf(item, Head(methods))) THEN <<Head(methods)>> ELSE <<>>)
         \o DefinedMethods(item, Tail(methods))

RECURSIVE DefinedPairs(_)
DefinedPairs(entries) ==
    IF entries = <<>> THEN <<>>
    ELSE LET ms == DefinedMethods(Head(entries)[2], Methods)
         IN  [k \in 1..Len(ms) |-> [path |-> Head(entries)[1], method |-> ms[k],
                                    op |-> Unwrap(OperationOf(Head(entries)[2], ms[k]))]]
             \o DefinedPairs(Tail(entries))

SegsOf(path) == (CHOOSE e \in PathPool : Template(e.segs) = path).segs

LowercaseName(method) ==
    CASE method = GET -> <<"g", "e", "t">>
      [] method = POST -> <<"p", "o", "s", "t">>
      [] method = PUT -> <<"p", "u", "t">>
      [] method = DELETE -> <<"d", "e", "l", "e", "t", "e">>
      [] method = PATCH -> <<"p", "a", "t", "c", "h">>

ExpectedName(path, method) ==
    LET segs == SegsOf(path)
    IN  Join([k \in 1..Len(segs) |-> segs[k].text] \o <<LowercaseName(method)>>, <<".">>)

DeclaresJson(op) ==
    IsSome(op.request_body) /\ ~Unwrap(op.request_body).ref /\ Unwrap(op.request_body).json

Compiled == IsSome(command) /\ IsSome(spec)
Children == Unwrap(command).subcommands
Pairs == DefinedPairs(Unwrap(spec).paths)

N_v1_products_id_get ==
    <<"v", "1", ".", "p", "r", "o", "d", "u", "c", "t", "s", ".", "i", "d", ".", "g", "e", "t">>

\* C2: the root has exactly one child per defined (path template, method) pair
\* and no two children of the root have the same name.
C2_OneChildPerPairUniqueNames ==
    Compiled =>
        /\ Len(Children) = Len(Pairs)
        /\ \A i, j \in 1..Len(Children) : i # j => Children[i].name # Children[j].name

\* C3: the subcommand compiled for (path template, method) is named by the
\* segments of the path joined with '.', the braces of a placeholder dropped,
\* followed by '.' and the lowercase method name.
C3_CommandName ==
    Compiled =>
        /\ Len(Children) = Len(Pairs)
        /\ \A k \in 1..Len(Children) :
               Children[k].name = ExpectedName(Pairs[k].path, Pairs[k].method)

C3_Witness ==
    /\ Compiled
    /\ \E k \in 1..Len(Children) :
           /\ Pairs[k].path = Template(Segs_v1_products_id)
           /\ Pairs[k].method = GET
           /\ Children[k].name = N_v1_products_id_get

\* C4: a subcommand has a flag named body only if its Operation declares a
\* request body with application/json content.
C4_BodyFlagOnlyForJsonBody ==
    Compiled =>
        \A k \in 1..Len(Children) :
            (\E a \in 1..Len(Children[k].args) : Children[k].args[a].long = Some(S_body))
                => DeclaresJson(Pairs[k].op)

(***************************************************************************)
(* What a dispatcher call is compared with: the operation the subcommand   *)
(* was compiled from, the flags bound on the line, the URL written from    *)
(* them.                                                                   *)
(***************************************************************************)
Called == Compiled /\ call.dispatcher # "none"

\* the children the called name may have been compiled from
CalledChildren == { k \in 1..Len(Children) : Children[k].name = call.name }

\* the value bound to a flag on the line, if any
BoundValue(id) ==
    LET hits == { k \in 1..Len(call.matches.vals) : call.matches.vals[k][1] = id }
    IN  IF hits = {} THEN None ELSE Some(call.matches.vals[CHOOSE k \in hits : TRUE][2])

DataParams(op) ==
    IF IsSome(op.parameters)
    THEN SelectSeq(Unwrap(op.parameters), LAMBDA param : ~param.ref) ELSE <<>>

\* the template with {name} replaced by the value of each bound path flag
RECURSIVE SubstitutedPath(_, _)
SubstitutedPath(path, params) ==
    IF params = <<>> THEN path
    ELSE LET param == Head(params)
         IN  IF param.in = "path" /\ IsSome(BoundValue(param.name))
             THEN SubstitutedPath(ReplaceStr(path, <<"{">> \o param.name \o <<"}">>,
                                             Unwrap(BoundValue(param.name))), Tail(params))
             ELSE SubstitutedPath(path, Tail(params))

\* the bound query flags, as <<name, value>>
RECURSIVE BoundQuery(_)
BoundQuery(params) ==
    IF params = <<>> THEN <<>>
    ELSE (IF Head(params).in = "query" /\ IsSome(BoundValue(Head(params).name))
          THEN <<<<Head(params).name, Unwrap(BoundValue(Head(params).name))>>>> ELSE <<>>)
         \o BoundQuery(Tail(params))

FirstServerPrefix ==
    LET servers == Unwrap(spec).servers
    IN  IF servers = None \/ Unwrap(servers) = <<>> THEN <<>> ELSE Head(Unwrap(servers))

\* the URLs the claim allows for child k: one per order of the query map
ExpectedUrls(k) ==
    LET params == DataParams(Pairs[k].op)
        stem == Unwrap(baseUrl) \o FirstServerPrefix \o SubstitutedPath(Pairs[k].path, params)
        query == BoundQuery(params)
    IN  IF query = <<>> THEN { stem }
        ELSE { stem \o <<"?">> \o QueryString(HashMapIter(query, order)) : order \in Orders }

HasPlaceholder(path) ==
    \E i, j \in 1..Len(path) : i < j /\ path[i] = "{" /\ path[j] = "}"

L_products_42 == 
    <<"v", "1", ".", "p", "r", "o", "d", "u", "c", "t", "s", ".", "i", "d", ".", "g", "e", "t",
      " ", "-", "-", "i", "d", " ", "4", "2">>
U_products_42 == 
    <<"h", "t", "t", "p", ":", "/", "/", "h", "o", "s", "t", "/", "v", "1", "/", "p", "r", "o",
      "d", "u", "c", "t", "s", "/", "4", "2">>

\* C1: the name of a compiled subcommand, given to the dispatcher, resolves to the
\* (path template, method) pair the subcommand was compiled from.
C1_RoundTripNaming ==
    Called =>
        \A k \in CalledChildren :
            call.resolved = Some([path |-> Pairs[k].path, method |-> Pairs[k].method])

\* C5: the request goes to baseUrl, then the first server prefix, then the template of the
\* operation with its bound path flags substituted, then '?' and the encoded query map when
\* a query flag is bound; v1.products.id.get --id 42 against http://host, no server
\* declared, requests GET http://host/v1/products/42.
C5_RequestUrl ==
    Called =>
        /\ IsSome(request) =>
               \A k \in CalledChildren :
                   /\ Unwrap(request).method = Pairs[k].method
                   /\ Unwrap(request).url \in ExpectedUrls(k)
        /\ (call.line = L_products_42 /\ FirstServerPrefix = <<>>) =>
               /\ IsSome(request)
               /\ Unwrap(request).method = GET
               /\ Unwrap(request).url = U_products_42

\* C6: a call whose path, after the bound path flags are substituted, still holds a
\* {name} placeholder ends in an error and hands no request to the transport.
C6_UnboundPlaceholderIsError ==
    (Called /\ IsSome(call.resolved)) =>
        LET path_item == Unwrap(PathsGet(Unwrap(spec), Unwrap(call.resolved).path))[2]
            operation == Unwrap(OperationOf(path_item, Unwrap(call.resolved).method))
        IN  HasPlaceholder(SubstitutedPath(Unwrap(call.resolved).path, DataParams(operation)))
                => (request = None /\ outcome.kind = "err")

\* the operation the dispatcher resolved
ResolvedOperation ==
    LET path_item == Unwrap(PathsGet(Unwrap(spec), Unwrap(call.resolved).path))[2]
    IN  Unwrap(OperationOf(path_item, Unwrap(call.resolved).method))

\* the body texts of the lines once tokenized, and the value of the one that is JSON
B_valid == V_json
B_invalid == <<"{", "a", ":", "1", "}">>
J_a_1 == JObj(<< <<<<"a">>, JNum(1)>> >>)

Output == Append(emitted, outcome.returned)

Contains(s, sub) == \E i \in 1..(Len(s) - Len(sub) + 1) : SubSeq(s, i, i + Len(sub) - 1) = sub

D_json == 
    <<"{", "\n", " ", " ", "\"", "a", "\"", ":", " ", "1", "\n", "}">>
\* a JSON body is shown pretty-printed, any other as it came
Displayed(response_body) == IF response_body = V_json_bare THEN D_json ELSE response_body

RECURSIVE NatOf(_, _)
NatOf(text, acc) ==
    IF text = <<>> THEN acc ELSE NatOf(Tail(text), 10 * acc + DigitValue(Head(text)))

\* a value coerced by type: a number, else a boolean, else the string
Coerced(text) ==
    IF text # <<>> /\ \A k \in 1..Len(text) : IsDigit(text[k]) THEN JNum(NatOf(text, 0))
    ELSE IF ToLowercase(text) = <<"t", "r", "u", "e">> THEN JBool(TRUE)
    ELSE IF ToLowercase(text) = <<"f", "a", "l", "s", "e">> THEN JBool(FALSE)
    ELSE JStr(text)

\* C9: the value the dispatcher puts into the query map for a bound query flag is the
\* text coerced by type: a number, else a boolean, else the unchanged string.  (The map
\* of the code holds Strings: its entry is the string value of its text.)
C9_QueryValuesCoerced ==
    Called =>
        \A k \in 1..Len(call.query) :
            /\ IsSome(BoundValue(call.query[k][1]))
            /\ JStr(call.query[k][2]) = Coerced(Unwrap(BoundValue(call.query[k][1])))

\* the word being completed: the last token of the line up to the cursor, the empty
\* word when that text ends in white space or holds no token
LineToCursor ==
    SubSeq(compl.line, 1, IF compl.pos > Len(compl.line) THEN Len(compl.line) ELSE compl.pos)

CurrentWord ==
    LET line_to_cursor == LineToCursor
        tokens == PartsOf(line_to_cursor)
    IN  IF tokens = <<>> \/ IsShlexSpace(line_to_cursor[Len(line_to_cursor)]) THEN <<>>
        ELSE tokens[Len(tokens)]

\* C10: the value of every suggestion complete returns starts with the current word.
C10_CompletionPrefixLaw ==
    compl.result = "ok" =>
        \A k \in 1..Len(compl.suggestions) : StartsWith(compl.suggestions[k].value, CurrentWord)

C10_Witness ==
    /\ compl.result = "ok"
    /\ CurrentWord # <<>>
    /\ Len(compl.suggestions) >= 2
    /\ \A k \in 1..Len(compl.suggestions) : compl.suggestions[k].value # CurrentWord

(***************************************************************************)
(* The contexts of a completion call, told from the line alone: the tokens *)
(* before the current word, the subcommand the first of them names, and    *)
(* whether the last of them is a flag of that subcommand whose value is    *)
(* still to come.                                                          *)
(***************************************************************************)
Root == Unwrap(command)

TokensBefore ==
    LET tokens == PartsOf(LineToCursor)
    IN  IF CurrentWord = <<>> THEN tokens ELSE SubSeq(tokens, 1, Len(tokens) - 1)

ActiveIndex == IF TokensBefore = <<>> THEN 0 ELSE FindSubcommand(Root, TokensBefore[1])

ValueContext ==
    /\ ActiveIndex # 0
    /\ AwaitsValue(Root.subcommands[ActiveIndex], TokensBefore, 2, FALSE)

ByClapCompleter == compl.engine = "ClapCompleter" /\ compl.result = "ok"

SuggestedValues == { compl.suggestions[k].value : k \in 1..Len(compl.suggestions) }

RootNamesWithPrefix ==
    { Root.subcommands[k].name :
        k \in { j \in 1..Len(Root.subcommands) : StartsWith(Root.subcommands[j].name, CurrentWord) } }

\* C11: in subcommand context (the current word is not empty, does not start with '-'
\* and is not the value of a value-taking flag) complete returns exactly the names of
\* the root's subcommands that start with the current word, also after a token that
\* selected a subcommand.
C11_SubcommandContextAtRoot ==
    (ByClapCompleter /\ CurrentWord # <<>> /\ ~StartsWith(CurrentWord, <<"-">>) /\ ~ValueContext)
        => SuggestedValues = RootNamesWithPrefix

\* C12: in value context, the flag having no enumerated values, complete returns the
\* empty list.
C12_FreeTextValueHasNoSuggestions ==
    (ByClapCompleter /\ ValueContext) => compl.suggestions = <<>>

\* the suggestions of a list whose value no earlier suggestion has, in the list's order
FirstSeen(list) ==
    LET keep == { k \in 1..Len(list) : \A j \in 1..(k - 1) : list[j].value # list[k].value }
    IN  [i \in 1..Cardinality(keep) |->
            list[CHOOSE k \in keep : Cardinality({ j \in keep : j <= k }) = i]]

\* C13: the list complete returns holds no two suggestions of the same value, and its
\* suggestions stand in the order in which their values were first produced.
C13_DeduplicatedInFirstSeenOrder ==
    ByClapCompleter =>
        /\ \A j, k \in 1..Len(compl.suggestions) :
               compl.suggestions[j].value = compl.suggestions[k].value => j = k
        /\ compl.suggestions = FirstSeen(compl.produced)

C13_Witness ==
    /\ ByClapCompleter
    /\ Len(compl.produced) > Len(compl.suggestions)
    /\ Len(compl.suggestions) >= 2

\* C14: a completion call never raises: whatever the line and the cursor offset, also
\* one past the end of the line, it returns a list, and the empty list while no
\* grammar is compiled.
C14_CompletionNeverRaises ==
    compl.result # "none" =>
        /\ compl.result = "ok"
        /\ ~IsSome(command) => compl.suggestions = <<>>

(***************************************************************************)
(* The history.  A step submits a line to the wasm session when it leaves  *)
(* the prompt there; the line is then call.line.                           *)
(***************************************************************************)
Submitted == pc = "idle" /\ pc' # "idle" /\ target # "native"
Initialized == IsSome(command) /\ IsSome(spec) /\ IsSome(baseUrl)
Newest(hist) == hist[Len(hist)]

\* the last n entries of a list
LastN(list, n) == IF Len(list) <= n THEN list ELSE SubSeq(list, Len(list) - n + 1, Len(list))

\* C15: the history never holds more than 1000 entries, and a line that differs from
\* the newest entry leaves the most recent 1000 lines, in the order they were given.
C15_HistoryBound ==
    [][ /\ Len(history') <= 1000
        /\ (Submitted /\ Initialized /\ Trim(call'.line) # <<>>
               /\ (history = <<>> \/ Newest(history) # Trim(call'.line)))
           => history' = LastN(Append(history, Trim(call'.line)), 1000) ]_vars

\* the first line of a long session has left a full history
C15_Witness ==
    /\ Len(history) = 1000
    /\ history[1] # S_help
    /\ pc = "done"
    /\ Newest(history) = Trim(call.line)

\* C16: a line whose trimmed text is the newest entry, or is empty, leaves the history
\* as it is; no two adjacent entries are equal and no entry is empty.
C16_ConsecutiveDuplicateSuppression ==
    [][ /\ \A k \in 1..(Len(history') - 1) : history'[k] # history'[k + 1]
        /\ \A k \in 1..Len(history') : history'[k] # <<>>
        /\ (Submitted /\ (Trim(call'.line) = <<>>
                           \/ (history # <<>> /\ Newest(history) = Trim(call'.line))))
           => history' = history ]_vars

\* the line with blanks around it answered, its text the newest of two entries
C16_Witness ==
    /\ pc = "done"
    /\ call.line = <<" ">> \o N_users_id_get \o <<" ">>
    /\ history = <<S_nope, N_users_id_get>>

\* C17: for 0 <= i < n, get_history_item(i) is the entry recorded i steps before the
\* newest one.
C17_NonNegativeIndexFromNewest ==
    (lookup.op = "get_history_item" /\ lookup.result = "ok"
     /\ lookup.index >= 0 /\ lookup.index < Len(history))
        => lookup.answer = Some(history[Len(history) - lookup.index])

C17_Witness ==
    /\ lookup.op = "get_history_item"
    /\ lookup.index = 1
    /\ Len(history) = 3
    /\ lookup.answer = Some(history[2])

\* C18: for 1 <= k <= n, get_history_item(-k) is the k-th oldest entry.
C18_NegativeIndexFromOldest ==
    (lookup.op = "get_history_item" /\ lookup.result = "ok"
     /\ lookup.index < 0 /\ 0 - lookup.index <= Len(history))
        => lookup.answer = Some(history[0 - lookup.index])

\* C18 as amended: for 1 <= k <= n, get_history_item(-k) is the k-th newest entry, so
\* get_history_item(-1) is the newest entry, as get_history_item(0) is.
C18_NegativeIndexFromNewest ==
    (lookup.op = "get_history_item" /\ lookup.result = "ok"
     /\ lookup.index < 0 /\ 0 - lookup.index <= Len(history))
        => lookup.answer = Some(history[Len(history) + lookup.index + 1])

C18_Witness ==
    /\ lookup.op = "get_history_item"
    /\ lookup.index = 0 - 1
    /\ Len(history) >= 2
    /\ lookup.answer = Some(Newest(history))

\* the entries that contain the query, from the newest back, `need` of them at most
RECURSIVE NewestMatches(_, _, _, _)
NewestMatches(hist, query, k, need) ==
    IF k = 0 \/ need = 0 THEN <<>>
    ELSE IF Contains(hist[k], query)
    THEN <<hist[k]>> \o NewestMatches(hist, query, k - 1, need - 1)
    ELSE NewestMatches(hist, query, k - 1, need)

\* C19: search_history(q) returns the entries that contain q, newest first, and the 10
\* most recent of them when more than 10 match.
C19_SearchNewestFirstAtMostTen ==
    (lookup.op = "search_history" /\ lookup.result = "ok")
        => lookup.answer = to_string(NewestMatches(history, lookup.query, Len(history), 10))

C19_Witness ==
    /\ lookup.op = "search_history"
    /\ lookup.query # <<>>
    /\ Cardinality({ k \in 1..Len(history) : Contains(history[k], lookup.query) }) > 10
    /\ ~Contains(Newest(history), lookup.query)

\* C20: a line that is not blank, submitted to an initialized session, is the newest
\* entry of the history after the call, failed or not.
C20_AttemptedLineIsRecorded ==
    (target = "wasm" /\ pc # "idle" /\ Initialized /\ Trim(call.line) # <<>>)
        => (history # <<>> /\ Newest(history) = Trim(call.line))

C20_Witness ==
    /\ target = "wasm"
    /\ pc = "done"
    /\ outcome.err = "tokenize"
    /\ history = <<Trim(call.line)>>

\* C21 as stated: the loop of the native client ends only on a line that is exit or
\* quit, or on the line reader's interrupt or end-of-input signal; a line that is blank,
\* help, refused by clap or failed by the dispatcher is followed by the next read, the
\* only step taken once its result is out; a line clap refuses dispatches no request.
ReplEnds == target = "native" /\ pc # "exited" /\ pc' = "exited"
ReplSignal == pc = "idle" /\ call' = call /\ outcome' = outcome
ReplReaderFailed == pc = "idle" /\ call' = call /\ outcome' = Returned("err", "io")
ReplGoesOn ==
    /\ pc' # "panicked"
    /\ (pc = "done" => pc' = "idle")
    /\ (outcome'.err = "parse" => (request' = None /\ pc' = "done"))
C21_ReplEndsOnlyOnQuitOrSignal ==
    [][ target' = "native"
          => /\ ReplEnds => (Trim(call'.line) \in {S_exit, S_quit} \/ ReplSignal)
             /\ ReplGoesOn ]_vars

\* C21 amended: the loop ends on exit, quit, the reader's signal, or the reader's own
\* failure, which start_repl returns to its caller; the rest as stated.
C21_ReplEndsOnQuitSignalOrReaderFailure ==
    [][ target' = "native"
          => /\ ReplEnds => \/ Trim(call'.line) \in {S_exit, S_quit}
                            \/ ReplSignal
                            \/ ReplReaderFailed
             /\ ReplGoesOn ]_vars

C21_Witness ==
    /\ target = "native"
    /\ pc = "done"
    /\ outcome.err = "parse"
    /\ request = None
    /\ Trim(call.line) \notin {<<>>, S_exit, S_quit, S_help}

\* C22: at most one request of a session is in flight: a line is taken up, and a
\* request handed to the transport, only at the prompt, where the request of the line
\* before has been answered or has failed and nothing is awaited.
InFlight == pc = "awaiting" /\ IsSome(request) /\ response = None
C22_OneRequestInFlight ==
    [][ /\ (call' # call /\ call' # NoCall) => (pc = "idle" /\ ~InFlight)
        /\ (request' # request /\ IsSome(request')) => (pc = "idle" /\ request = None)
        /\ (pc = "awaiting" => InFlight) ]_vars

\* run_command_async called again while the request of the line before is awaited
C22_Witness ==
    /\ lookup.op = "run_command_async"
    /\ lookup.result \in {"panicked", "blocked"}
    /\ lookup.query # call.line
    /\ IsSome(request)
    /\ response = None

\* C23: a line with unbalanced quoting, given to an initialized session, is reported as
\* a tokenization error, dispatches no request, and leaves the session at its next
\* prompt.
Unbalanced(line) == Trim(line) # <<>> /\ ~IsSome(shlex_split(Trim(line)))
C23_UnbalancedQuotingIsTokenizeError ==
    (Initialized /\ pc # "idle" /\ call # NoCall /\ Unbalanced(call.line))
        => (outcome.err = "tokenize" /\ request = None /\ pc = "done")

\* what holds of both clients: no request, and the session goes on
C23_UnbalancedQuotingSendsNothing ==
    (Initialized /\ pc # "idle" /\ call # NoCall /\ Unbalanced(call.line))
        => (outcome.kind = "err" /\ request = None /\ pc = "done")

\* C24: a native client started with no url prints its usage and returns Ok: no spec
\* is fetched or compiled and nothing is handed to the transport.
StartedWithoutUrl == target \in {"native", "once"} /\ baseUrl = None
C24_NoUrlPrintsUsageAndReturns ==
    StartedWithoutUrl
        => /\ pc = "exited"
           /\ outcome = Returned("ok", "")
           /\ emitted = <<S_usage>>
           /\ spec = None /\ command = None
           /\ request = None /\ response = None

C24_Witness == StartedWithoutUrl /\ pc = "exited" /\ (\A k \in 1..Len(emitted) : emitted[k] # S_fetching)

\* C25: a dispatch error of the one command of a single-shot run is what the run
\* returns, and no prompt follows; the same error in the loop is followed by the next
\* prompt.
DispatchErrors == {"json", "operation_not_found", "path_not_found", "invalid_name", "transport"}
DispatchError == outcome.kind = "err" /\ outcome.err \in DispatchErrors
C25_SingleShotEndsOnDispatchError ==
    [][ /\ (target = "once" /\ pc = "done" /\ DispatchError)
              => (pc' = "exited" /\ outcome' = outcome)
        /\ (target = "native" /\ pc = "done" /\ DispatchError) => pc' = "idle"
        /\ (target = "once" /\ pc = "exited") => pc' = "exited" ]_vars

C25_Witness ==
    /\ target = "once"
    /\ pc = "exited"
    /\ DispatchError
    /\ outcome.err = "transport"
    /\ IsSome(request)

\* C26: the command tree, the document and the base url of a session change only in a
\* step that initializes it, which stores the document, the tree compiled from it and
\* the url, and runs no line, completes nothing and leaves the history alone.
InitStep ==
    /\ IsSome(spec') /\ IsSome(baseUrl')
    /\ command' = Some(build_cli_from_spec(Unwrap(spec')))
    /\ UNCHANGED <<pc, call, request, response, outcome, emitted, history, compl, lookup>>
C26_OnlyInitializationChangesTheGrammar ==
    [][ (command' # command \/ spec' # spec \/ baseUrl' # baseUrl) => InitStep ]_vars

\* a line has been run and recorded and the history read, under the tree compiled at
\* initialization
C26_Witness ==
    /\ target = "wasm"
    /\ history # <<>>
    /\ lookup.op = "get_history"
    /\ lookup.result = "ok"
    /\ command = Some(build_cli_from_spec(Unwrap(spec)))

\* C27: the tree compiled from a document is a function of the document: its
\* subcommands are, path by path in ascending order of the templates and within a path
\* in the order GET, POST, PUT, DELETE, PATCH, the operations defined, each with one
\* flag per inline parameter in the order of the parameters, then body if the operation
\* declares a JSON body.  Every compilation of the document yields this listing.
RECURSIVE ParameterNames(_)
ParameterNames(params) ==
    IF params = <<>> THEN <<>>
    ELSE (IF Head(params).ref THEN <<>> ELSE <<Head(params).name>>) \o ParameterNames(Tail(params))

FlagsInOrder(op) ==
    (IF IsSome(op.parameters) THEN ParameterNames(Unwrap(op.parameters)) ELSE <<>>)
        \o (IF DeclaresJson(op) THEN <<S_body>> ELSE <<>>)

ListingOfPath(path, item) ==
    LET present(method) == IF IsSome(OperationOf(item, method))
                           THEN <<[name |-> ExpectedName(path, method),
                                   flags |-> FlagsInOrder(Unwrap(OperationOf(item, method)))]>>
                           ELSE <<>>
    IN  present(GET) \o present(POST) \o present(PUT) \o present(DELETE) \o present(PATCH)

RECURSIVE ListingOf(_)
ListingOf(entries) ==
    IF entries = <<>> THEN <<>>
    ELSE ListingOfPath(Head(entries)[1], Head(entries)[2]) \o ListingOf(Tail(entries))

Listed(sub) == [name |-> sub.name, flags |-> [k \in 1..Len(sub.args) |-> sub.args[k].id]]

C27_CompilationIsDeterminedByTheDocument ==
    Compiled =>
        LET entries == Unwrap(spec).paths
        IN  /\ \A k \in 1..(Len(entries) - 1) : StrLess(entries[k][1], entries[k + 1][1])
            /\ [k \in 1..Len(Children) |-> Listed(Children[k])] = ListingOf(entries)
            /\ command = Some(build_cli_from_spec(Unwrap(spec)))

\* a path with two operations, after a path that sorts before it
C27_Witness ==
    /\ Compiled
    /\ Len(Unwrap(spec).paths) >= 2
    /\ \E k \in 1..(Len(Children) - 1) :
           /\ k > 1
           /\ Children[k].name = N_users_id_get
           /\ Children[k + 1].name = N_users_id_put
           /\ Children[k + 1].args # <<>>

\* C28: a call of get_completions, get_history, get_history_item, search_history or
\* clear_history made while run_command_async awaits its response returns as it does
\* at the prompt.
ReadOnlyCalls ==
    {"get_completions", "get_history", "get_history_item", "search_history", "clear_history"}
C28_CallsDuringTheAwaitComplete ==
    (lookup.op \in ReadOnlyCalls) => (lookup.result = "ok" /\ pc \notin {"panicked", "blocked"})

\* the calls made at the prompt do return
C28_CallsAtThePromptComplete ==
    [][ (pc = "idle" /\ lookup' # lookup /\ lookup'.op \in ReadOnlyCalls)
            => (lookup'.result = "ok" /\ pc' = "idle") ]_vars

(***************************************************************************)
(* The raw text of the current word: where the last word of the text up to *)
(* the cursor begins, the quotes and escapes it is written with included.  *)
(* With a quote left open the words are the runs between white space.      *)
(***************************************************************************)
RECURSIVE RawStartFrom(_, _, _, _)
RawStartFrom(s, i, start, quote) ==
    IF i > Len(s) THEN start
    ELSE IF quote = "'"
    THEN RawStartFrom(s, i + 1, start, IF s[i] = "'" THEN "" ELSE quote)
    ELSE IF quote = "\""
    THEN IF s[i] = "\\" THEN RawStartFrom(s, i + 2, start, quote)
         ELSE RawStartFrom(s, i + 1, start, IF s[i] = "\"" THEN "" ELSE quote)
    ELSE IF IsShlexSpace(s[i]) THEN RawStartFrom(s, i + 1, i, "")
    ELSE IF s[i] = "\\" THEN RawStartFrom(s, i + 2, start, "")
    ELSE RawStartFrom(s, i + 1, start, IF s[i] \in {"'", "\""} THEN s[i] ELSE "")

AfterLastSpace(s) ==
    LET spaces == { i \in 1..Len(s) : IsShlexSpace(s[i]) }
    IN  IF spaces = {} THEN 0 ELSE CHOOSE i \in spaces : \A j \in spaces : j <= i

RawStart(s) == IF IsSome(shlex_split(s)) THEN RawStartFrom(s, 1, 0, "") ELSE AfterLastSpace(s)

\* C29: the span of every suggestion ends at the cursor and starts where the raw text
\* of the current word starts in the line, so that line[start..end] is that raw text,
\* quotes and escapes included.
C29_SpanCoversTheRawWord ==
    ByClapCompleter =>
        \A k \in 1..Len(compl.suggestions) :
            compl.suggestions[k].span = <<RawStart(LineToCursor), compl.pos>>

\* what the spans are: the cursor less the length of the last token after tokenizing,
\* of the empty word after a blank
C29_SpanOfTheTokenizedWord ==
    ByClapCompleter =>
        LET tokens == PartsOf(LineToCursor)
            word == IF tokens = <<>> \/ EndsWith(LineToCursor, <<" ">>) THEN <<>>
                    ELSE tokens[Len(tokens)]
        IN  \A k \in 1..Len(compl.suggestions) :
                /\ compl.suggestions[k].span = <<compl.pos - Len(word), compl.pos>>
                /\ compl.pos - Len(word) >= 0

\* C30: get_history_item called at the prompt returns, leaves the history as it was,
\* and returns None when the history is empty or the index i is not in -n..n-1 for a
\* history of n entries.
BadIndex(hist, i) == hist = <<>> \/ i >= Len(hist) \/ i < 0 - Len(hist)
C30_BadIndexReturnsNone ==
    [][ (pc = "idle" /\ lookup' # lookup /\ lookup'.op = "get_history_item")
            => /\ lookup'.result = "ok"
               /\ pc' = "idle"
               /\ history' = history
               /\ BadIndex(history, lookup'.index) => lookup'.answer = None ]_vars

C30_Witness ==
    /\ lookup.op = "get_history_item"
    /\ lookup.result = "ok"
    /\ Len(history) >= 2
    /\ lookup.index = 0 - Len(history) - 1
    /\ lookup.answer = None

=============================================================================
